---- MODULE Spec2Model ----
(***************************************************************************)
(* Model of src/src/app/api/analyze/route.js: the JSON extractor, the two  *)
(* normalizers (general plan, behavior plan), the suggestion normalizer    *)
(* and the POST handler that strings them together.                        *)
(*                                                                         *)
(* JavaScript values are tagged records (field t is the tag):              *)
(*   undefined, null, bool, num (a rational n/d in lowest terms), str (a   *)
(*   sequence of symbols), arr (a sequence of values), obj (a sequence of  *)
(*   members [k, v] in insertion order, k a str payload).                  *)
(* A text is a sequence of symbols; a symbol is one character, or one      *)
(* whole word where the characters of the word never matter (a key name,   *)
(* an Arabic literal of the source written in Latin letters).              *)
(***************************************************************************)
EXTENDS Integers, Sequences, FiniteSets, TLC

VARIABLES
    input,      \* the value a function is applied to (parsed)
    note,       \* the fallbackNote argument
    fn,         \* which function has been applied ("none" before the call)
    out,        \* what the call returned (or Throw)
    pc,         \* position of the POST handler, or of normalizeBehavior taken step by step
    req,        \* the request body fields the handler reads
    env,        \* process.env: MOCK_AI, OPENAI_API_KEY
    upstream,   \* what the upstream call answered: [kind, content]
    calls,      \* number of upstream calls made for this request
    response    \* the response returned ([status |-> 0] while none)

vars == <<input, note, fn, out, pc, req, env, upstream, calls, response>>

----------------------------------------------------------------------------
(* JavaScript values *)

Undef == [t |-> "undefined"]
Null == [t |-> "null"]
Bool(b) == [t |-> "bool", v |-> b]
Num(n, d) == [t |-> "num", n |-> n, d |-> d]
NumInt(n) == Num(n, 1)
Str(s) == [t |-> "str", v |-> s]
Arr(s) == [t |-> "arr", v |-> s]
Obj(m) == [t |-> "obj", v |-> m]
\* the outcome of a call that raised
Throw == [t |-> "throw"]

EmptyStr == Str(<<>>)
EmptyArr == Arr(<<>>)

\* one member of an object whose key is the one-symbol text k
M(k, v) == [k |-> <<k>>, v |-> v]

\* ToBoolean: undefined, null, false, 0 and "" are falsy; every array and
\* every object (empty ones too) is truthy
Truthy(x) ==
    CASE x.t = "undefined" -> FALSE
      [] x.t = "null" -> FALSE
      [] x.t = "bool" -> x.v
      [] x.t = "num" -> x.n # 0
      [] x.t = "str" -> Len(x.v) > 0
      [] OTHER -> TRUE

\* a || b
JsOr(a, b) == IF Truthy(a) THEN a ELSE b
\* a && b
JsAnd(a, b) == IF Truthy(a) THEN b ELSE a

\* typeof x === 'object' (null and arrays included)
TypeofObject(x) == x.t \in {"null", "arr", "obj"}

\* own members of an object with key k
MembersAt(o, k) == {i \in 1..Len(o.v) : o.v[i].k = <<k>>}

\* o.k : the member of an object; undefined on arrays, strings, numbers and
\* booleans (none of the names the source reads is a prototype property)
Get(o, k) ==
    IF o.t = "obj" /\ MembersAt(o, k) # {}
    THEN o.v[CHOOSE i \in MembersAt(o, k) : TRUE].v
    ELSE Undef

----------------------------------------------------------------------------
(* Texts *)

\* f applied to every element of a sequence (Array.prototype.map)
MapSeq(s, f(_)) == [i \in 1..Len(s) |-> f(s[i])]

\* the sequences of a sequence of sequences, concatenated
RECURSIVE Flatten(_)
Flatten(ss) == IF Len(ss) = 0 THEN <<>> ELSE Head(ss) \o Flatten(Tail(ss))

\* parts joined with the text sep between them (Array.prototype.join)
RECURSIVE Join(_, _)
Join(parts, sep) ==
    IF Len(parts) = 0 THEN <<>>
    ELSE IF Len(parts) = 1 THEN parts[1]
    ELSE parts[1] \o sep \o Join(Tail(parts), sep)

\* white space as String.prototype.trim sees it
IsSpace(c) == c \in {" ", "\t", "\n", "\r"}

RECURSIVE TrimLeft(_)
TrimLeft(s) ==
    IF Len(s) > 0 /\ IsSpace(s[1]) THEN TrimLeft(Tail(s)) ELSE s

RECURSIVE TrimRight(_)
TrimRight(s) ==
    IF Len(s) > 0 /\ IsSpace(s[Len(s)])
    THEN TrimRight(SubSeq(s, 1, Len(s) - 1))
    ELSE s

\* String.prototype.trim
Trim(s) == TrimRight(TrimLeft(s))

\* s.split(sep) for a separator that is any one symbol of seps: every
\* separator symbol ends a piece, empty pieces are kept
RECURSIVE SplitFrom(_, _, _, _)
SplitFrom(s, seps, i, cur) ==
    IF i > Len(s) THEN <<cur>>
    ELSE IF s[i] \in seps THEN <<cur>> \o SplitFrom(s, seps, i + 1, <<>>)
    ELSE SplitFrom(s, seps, i + 1, Append(cur, s[i]))

Split(s, seps) == SplitFrom(s, seps, 1, <<>>)

NonEmpty(s) == Len(s) > 0

\* one carriage return before the line feed belongs to the separator
DropCr(piece) ==
    IF Len(piece) > 0 /\ piece[Len(piece)] = "\r"
    THEN SubSeq(piece, 1, Len(piece) - 1)
    ELSE piece

\* s.split(/\r?\n/)
SplitLinesRaw(s) ==
    LET pieces == Split(s, {"\n"})
    IN [i \in 1..Len(pieces) |->
            IF i < Len(pieces) THEN DropCr(pieces[i]) ELSE pieces[i]]

\* s.split(/\r?\n/).map(s => s.trim()).filter(Boolean)
SplitLines(s) == SelectSeq(MapSeq(SplitLinesRaw(s), Trim), NonEmpty)

\* the symbol of a decimal digit
Digit(n) == <<"0", "1", "2", "3", "4", "5", "6", "7", "8", "9">>[n + 1]

RECURSIVE NatText(_)
NatText(n) == IF n < 10 THEN <<Digit(n)>> ELSE NatText(n \div 10) \o <<Digit(n % 10)>>

\* the digits after the decimal point of r/d, r < d, at most k of them
RECURSIVE FracText(_, _, _)
FracText(r, d, k) ==
    IF r = 0 \/ k = 0 THEN <<>>
    ELSE <<Digit((r * 10) \div d)>> \o FracText((r * 10) % d, d, k - 1)

\* Number::toString of the rational n/d (a finite decimal in the model)
NumText(n, d) ==
    LET a == IF n < 0 THEN 0 - n ELSE n
        sign == IF n < 0 THEN <<"-">> ELSE <<>>
    IN sign \o NatText(a \div d) \o
       (IF a % d = 0 THEN <<>> ELSE <<".">> \o FracText(a % d, d, 17))

ObjectObjectText == <<"[", "o", "b", "j", "e", "c", "t", " ", "O", "b", "j", "e", "c", "t", "]">>

\* String(x) raises a TypeError when x is an object with an own member
\* toString (a JSON value is never callable, and Object.prototype.valueOf
\* returns the object itself), or an array that holds such an object:
\* OrdinaryToPrimitive finds no primitive
RECURSIVE StringThrows(_)
StringThrows(x) ==
    CASE x.t = "obj" -> MembersAt(x, "toString") # {}
      [] x.t = "arr" -> \E i \in 1..Len(x.v) : StringThrows(x.v[i])
      [] OTHER -> FALSE

\* the text of String(x), for x on which String does not raise; an array
\* is its elements joined by commas, null and undefined elements empty
RECURSIVE StringText(_)
StringText(x) ==
    CASE x.t = "undefined" -> <<"u", "n", "d", "e", "f", "i", "n", "e", "d">>
      [] x.t = "null" -> <<"n", "u", "l", "l">>
      [] x.t = "bool" -> IF x.v THEN <<"t", "r", "u", "e">> ELSE <<"f", "a", "l", "s", "e">>
      [] x.t = "num" -> NumText(x.n, x.d)
      [] x.t = "str" -> x.v
      [] x.t = "arr" ->
            Join([i \in 1..Len(x.v) |->
                    IF x.v[i].t \in {"undefined", "null"} THEN <<>>
                    ELSE StringText(x.v[i])], <<",">>)
      [] OTHER -> ObjectObjectText

\* String(x) as a value
JsString(x) == IF StringThrows(x) THEN Throw ELSE Str(StringText(x))

\* arr.map(String): the array of the texts, or Throw
MapString(a) ==
    IF \E i \in 1..Len(a.v) : StringThrows(a.v[i]) THEN Throw
    ELSE Arr([i \in 1..Len(a.v) |-> Str(StringText(a.v[i]))])

\* a sequence of texts as an array of string values
StrArr(texts) == Arr([i \in 1..Len(texts) |-> Str(texts[i])])

\* alias-key probing, o.k1 || o.k2 || ... || dflt
RECURSIVE Probe(_, _, _)
Probe(o, keys, dflt) ==
    IF Len(keys) = 0 THEN dflt
    ELSE JsOr(Get(o, Head(keys)), Probe(o, Tail(keys), dflt))

\* the text between quotes of JSON.stringify of a string
RECURSIVE JsonEscape(_)
JsonEscape(s) ==
    IF Len(s) = 0 THEN <<>>
    ELSE (CASE s[1] = "\"" -> <<"\\", "\"">>
            [] s[1] = "\\" -> <<"\\", "\\">>
            [] s[1] = "\n" -> <<"\\", "n">>
            [] s[1] = "\r" -> <<"\\", "r">>
            [] s[1] = "\t" -> <<"\\", "t">>
            [] OTHER -> <<s[1]>>) \o JsonEscape(Tail(s))

\* JSON.stringify(x) of a JSON value, without indentation
RECURSIVE JsonText(_)
JsonText(x) ==
    CASE x.t = "null" -> <<"n", "u", "l", "l">>
      [] x.t = "undefined" -> <<"n", "u", "l", "l">>
      [] x.t = "bool" -> IF x.v THEN <<"t", "r", "u", "e">> ELSE <<"f", "a", "l", "s", "e">>
      [] x.t = "num" -> NumText(x.n, x.d)
      [] x.t = "str" -> <<"\"">> \o JsonEscape(x.v) \o <<"\"">>
      [] x.t = "arr" ->
            <<"[">> \o Join([i \in 1..Len(x.v) |-> JsonText(x.v[i])], <<",">>) \o <<"]">>
      [] OTHER ->
            <<"{">> \o
            Join([i \in 1..Len(x.v) |->
                    <<"\"">> \o JsonEscape(x.v[i].k) \o <<"\"", ":">> \o JsonText(x.v[i].v)],
                 <<",">>) \o
            <<"}">>

----------------------------------------------------------------------------
(* Literals of the source (Arabic in the source, one Latin word each here) *)

\* 'لا توجد مخرجات AI صالحة؛ تم إرجاع ملخص افتراضي.'
NoValidAiOutput == <<"la-tujad-mukhrajat-AI-saliha">>
\* 'نشاط'
DefaultActivityType == <<"nashat">>
\* `خطة بناءً على الملاحظة.`
GenericGoal == <<"khutta-bina'an-ala-almulahaza">>
\* 'شديد'
SevereLiteral == <<"shadid">>

----------------------------------------------------------------------------
(* ensureSuggestionObjects *)

SuggestionEntry(text, rationale, confidence) ==
    Obj(<<M("text", text), M("rationale", rationale), M("confidence", confidence)>>)

\* the entry of one item whose text needs String(item): a raise is Throw
EnsureOne(item) ==
    IF item.t = "str" THEN SuggestionEntry(item, EmptyStr, Null)
    ELSE IF Truthy(item) /\ TypeofObject(item) THEN
        LET text == Probe(item, <<"text", "title", "label">>, Undef)
        IN IF ~Truthy(text) /\ StringThrows(item) THEN Throw
           ELSE SuggestionEntry(
                    IF Truthy(text) THEN text ELSE Str(StringText(item)),
                    Probe(item, <<"rationale", "reason", "explanation">>, EmptyStr),
                    IF Get(item, "confidence").t = "num" THEN Get(item, "confidence") ELSE Null)
    ELSE SuggestionEntry(Str(StringText(item)), EmptyStr, Null)

ensureSuggestionObjects(arr) ==
    IF arr.t # "arr" THEN EmptyArr
    ELSE IF \E i \in 1..Len(arr.v) : EnsureOne(arr.v[i]) = Throw THEN Throw
    ELSE Arr([i \in 1..Len(arr.v) |-> EnsureOne(arr.v[i])])

----------------------------------------------------------------------------
(* normalizeAi *)

\* the task-step cap of the back-fill, maybe.slice(0, 6)
BackfillCap == 6

\* the first n elements of a sequence (slice(0, n))
Take(s, n) == SubSeq(s, 1, IF Len(s) < n THEN Len(s) ELSE n)

\* the coercion normalizeAi repeats for every string-sequence field:
\*   if (Array.isArray(c)) field = c.map(String);
\*   else if (typeof c === 'string' && c.trim()) field = lines of c
\* (the field keeps its default [] otherwise); Throw when String raises
AiStringSeq(c) ==
    IF c.t = "arr" THEN MapString(c)
    ELSE IF c.t = "str" /\ NonEmpty(Trim(c.v)) THEN StrArr(SplitLines(c.v))
    ELSE EmptyArr

\* one string of the activities list: "type: name", or the default type
ActivityOfText(a, name) ==
    LET parts == MapSeq(Split(a, {":"}), Trim)
    IN IF Len(parts) >= 2
       THEN Obj(<<M("type", Str(parts[1])), M("name", Str(Join(Tail(parts), <<":">>)))>>)
       ELSE Obj(<<M("type", Str(DefaultActivityType)), M("name", Str(name))>>)

\* one element of an activities array
ActivityOf(a) ==
    IF a.t = "str" THEN ActivityOfText(a.v, a.v)
    ELSE IF Truthy(a) /\ TypeofObject(a) THEN
        Obj(<<M("type", Probe(a, <<"type", "kind", "category">>, Str(DefaultActivityType))),
              M("name", Probe(a, <<"name", "title", "label">>, Str(JsonText(a))))>>)
    ELSE Obj(<<M("type", Str(DefaultActivityType)), M("name", Str(StringText(a)))>>)

AiActivities(acts) ==
    IF acts.t = "arr" THEN Arr([i \in 1..Len(acts.v) |-> ActivityOf(acts.v[i])])
    ELSE IF acts.t = "str" /\ NonEmpty(Trim(acts.v)) THEN
        LET lines == SplitLinesRaw(acts.v)
        IN Arr([i \in 1..Len(lines) |-> ActivityOfText(lines[i], Trim(lines[i]))])
    ELSE EmptyArr

\* canonical.suggestions / canonical.customizations of normalizeAi
AiSuggestionTexts(c) ==
    IF c.t = "arr" THEN MapString(c)
    ELSE IF c.t = "str" THEN StrArr(SplitLines(c.v))
    ELSE EmptyArr

\* the alias chain of the task steps
AiTaskCandidates(parsed) ==
    Probe(parsed, <<"task_analysis_steps", "task_analysis", "steps", "tasks", "customizations">>,
          EmptyArr)

\* the alias chain of the subgoals
AiSubgoalCandidates(parsed) ==
    Probe(parsed, <<"subgoals", "goals", "suggestions", "phases">>, EmptyArr)

AiSummary(parsed) == Probe(parsed, <<"summary", "smart_goal", "overview">>, EmptyStr)

\* the back-fill of task_analysis_steps from customizations, else suggestions
AiBackfillTasks(tasks, customizations, suggestions) ==
    IF Len(tasks.v) = 0 THEN
        LET maybe == IF Len(customizations.v) > 0 THEN customizations ELSE suggestions
        IN IF Len(maybe.v) > 0 THEN Arr(Take(maybe.v, BackfillCap)) ELSE tasks
    ELSE tasks

\* the record normalizeAi returns when parsed is not an object
AiFallback(fallbackNote) ==
    Obj(<<M("smart_goal", EmptyStr),
          M("summary", JsOr(fallbackNote, EmptyStr)),
          M("teaching_strategy", EmptyStr),
          M("task_analysis_steps", EmptyArr),
          M("subgoals", EmptyArr),
          M("activities", EmptyArr),
          M("execution_plan", EmptyArr),
          M("reinforcement", Obj(<<M("type", EmptyStr), M("schedule", EmptyStr)>>)),
          M("measurement", Obj(<<M("type", EmptyStr), M("sheet", EmptyStr)>>)),
          M("generalization_plan", EmptyArr),
          M("accommodations", EmptyArr),
          M("suggestions", Arr(<<Str(NoValidAiOutput)>>)),
          M("customizations", EmptyArr),
          M("parent_instructions", EmptyStr),
          M("meta", Obj(<<>>))>>)

normalizeAi(parsed, fallbackNote) ==
    IF ~Truthy(parsed) \/ ~TypeofObject(parsed) THEN AiFallback(fallbackNote)
    ELSE
    LET summary == AiSummary(parsed)
        smart0 == Probe(parsed, <<"smart_goal", "summary", "goal">>, summary)
        teach0 == Probe(parsed, <<"teaching_strategy", "strategy", "customization", "teaching">>,
                        EmptyStr)
        tasks0 == AiStringSeq(AiTaskCandidates(parsed))
        subgoals == AiStringSeq(AiSubgoalCandidates(parsed))
        activities ==
            AiActivities(Probe(parsed, <<"activities", "activities_list", "tasks_list">>, EmptyArr))
        execPlan ==
            AiStringSeq(Probe(parsed, <<"execution_plan", "execution", "steps_plan">>, EmptyArr))
        reinf == Get(parsed, "reinforcement")
        meas == Get(parsed, "measurement")
        reinfType ==
            JsOr(JsOr(JsAnd(reinf, JsOr(Get(reinf, "type"), Get(reinf, "name"))),
                      Get(parsed, "reinforce")), EmptyStr)
        reinfSchedule ==
            JsOr(JsAnd(reinf, Get(reinf, "schedule")),
                 Probe(parsed, <<"reinforce_schedule", "reinforcement_schedule">>, EmptyStr))
        measType ==
            JsOr(JsOr(JsAnd(meas, JsOr(Get(meas, "type"), Get(meas, "method"))),
                      Get(parsed, "measurement_type")), EmptyStr)
        measSheet ==
            JsOr(JsOr(JsAnd(meas, Get(meas, "sheet")), Get(parsed, "measurement_tool")), EmptyStr)
        gen == AiStringSeq(Probe(parsed, <<"generalization_plan", "generalization", "generalise">>,
                                 EmptyArr))
        acc == AiStringSeq(Probe(parsed, <<"accommodations", "accommodation", "adaptations">>,
                                 EmptyArr))
        suggestions == AiSuggestionTexts(Get(parsed, "suggestions"))
        customizations == AiSuggestionTexts(Get(parsed, "customizations"))
        parentInstr ==
            Probe(parsed, <<"parent_instructions", "caregiver_instructions", "home_instructions">>,
                  EmptyStr)
        meta ==
            Obj(<<M("model_provided_confidence",
                    Probe(parsed, <<"confidence", "confidence_score">>, Null)),
                  M("notes", Probe(parsed, <<"_notes", "notes">>, EmptyStr))>>)
    IN IF Throw \in {tasks0, subgoals, execPlan, gen, acc, suggestions, customizations}
       THEN Throw
       ELSE
       LET tasks == AiBackfillTasks(tasks0, customizations, suggestions)
           smart == IF Truthy(smart0) THEN smart0 ELSE JsOr(summary, Str(GenericGoal))
           teach == IF ~Truthy(teach0) /\ Len(customizations.v) > 0
                    THEN customizations.v[1] ELSE teach0
       IN Obj(<<M("smart_goal", smart),
                M("summary", summary),
                M("teaching_strategy", teach),
                M("task_analysis_steps", tasks),
                M("subgoals", subgoals),
                M("activities", activities),
                M("execution_plan", execPlan),
                M("reinforcement", Obj(<<M("type", reinfType), M("schedule", reinfSchedule)>>)),
                M("measurement", Obj(<<M("type", measType), M("sheet", measSheet)>>)),
                M("generalization_plan", gen),
                M("accommodations", acc),
                M("suggestions", suggestions),
                M("customizations", customizations),
                M("parent_instructions", parentInstr),
                M("meta", meta)>>)

----------------------------------------------------------------------------
(* normalizeBehavior *)

\* review_after_days when no alias supplies a truthy value
ReviewDefault == 14

\* the cap of the strategy fall-back, cand.slice(0, 6)
StrategyCap == 6

UpperLetters == <<"A", "B", "C", "D", "E", "F", "G", "H", "I", "J", "K", "L", "M",
                  "N", "O", "P", "Q", "R", "S", "T", "U", "V", "W", "X", "Y", "Z">>
LowerLetters == <<"a", "b", "c", "d", "e", "f", "g", "h", "i", "j", "k", "l", "m",
                  "n", "o", "p", "q", "r", "s", "t", "u", "v", "w", "x", "y", "z">>

\* String.prototype.toLowerCase: Latin capitals change, Arabic letters do not
ToLower(s) ==
    [i \in 1..Len(s) |->
        IF \E j \in 1..26 : UpperLetters[j] = s[i]
        THEN LowerLetters[CHOOSE j \in 1..26 : UpperLetters[j] = s[i]]
        ELSE s[i]]

\* low.includes(k)
Includes(low, k) ==
    \E i \in 0..(Len(low) - Len(k)) : SubSeq(low, i + 1, i + Len(k)) = k

\* the Arabic keywords, one symbol per Arabic letter:
\* ['قبل', 'عند', 'أثناء', 'مسبق', 'سابقاً', 'قبل السلوك']
antecedentKeywords ==
    << <<"qaf", "ba", "lam">>,
       <<"ayn", "nun", "dal">>,
       <<"alif-hamza", "tha", "nun", "alif", "hamza">>,
       <<"mim", "sin", "ba", "qaf">>,
       <<"sin", "alif", "ba", "qaf", "alif", "tanwin">>,
       <<"qaf", "ba", "lam", " ", "alif", "lam", "sin", "lam", "waw", "kaf">> >>

\* ['بعد', 'عقب', 'ينتج', 'نتيجة', 'يحصل', 'يحصل على', 'يؤدي إلى', 'ثم']
consequenceKeywords ==
    << <<"ba", "ayn", "dal">>,
       <<"ayn", "qaf", "ba">>,
       <<"ya", "nun", "ta", "jim">>,
       <<"nun", "ta", "ya", "jim", "ta-marbuta">>,
       <<"ya", "hah", "sad", "lam">>,
       <<"ya", "hah", "sad", "lam", " ", "ayn", "lam", "alif-maqsura">>,
       <<"ya", "waw-hamza", "dal", "ya", " ", "alif-hamza-below", "lam", "alif-maqsura">>,
       <<"tha", "mim">> >>

\* splitSentences of a text: split(/[\.\?\!\;\n]+/).map(trim).filter(Boolean)
SentencesOf(text) ==
    SelectSeq(MapSeq(Split(text, {".", "?", "!", ";", "\n"}), Trim), NonEmpty)

\* splitSentences(x): nothing for a value that is no non-empty string
splitSentences(x) == IF x.t = "str" /\ Truthy(x) THEN SentencesOf(x.v) ELSE <<>>

\* collectStrings: every string of the tree, depth first, members and
\* elements in their order (no object of the model has an integer-like key,
\* which Object.values would move to the front)
RECURSIVE collectStrings(_)
collectStrings(x) ==
    IF ~Truthy(x) THEN <<>>
    ELSE IF x.t = "str" THEN <<x.v>>
    ELSE IF x.t = "arr" THEN Flatten([i \in 1..Len(x.v) |-> collectStrings(x.v[i])])
    ELSE IF x.t = "obj" THEN Flatten([i \in 1..Len(x.v) |-> collectStrings(x.v[i].v)])
    ELSE <<>>

containsKeyword(s, keywords) ==
    /\ Len(s) > 0
    /\ \E i \in 1..Len(keywords) : Includes(ToLower(s), keywords[i])

\* the sentences of texts that contain a keyword
KeywordSentences(texts, keywords) ==
    LET Hit(s) == containsKeyword(s, keywords)
    IN SelectSeq(texts, Hit)

\* toArrayStrings that loses the first element of an array
toArrayStringsDroppingFirst(v) ==
    IF ~Truthy(v) THEN EmptyArr
    ELSE IF v.t = "arr" THEN
        IF StringThrows(v) THEN Throw
        ELSE LET rest == IF v.v = <<>> THEN <<>> ELSE Tail(v.v)
             IN StrArr(SelectSeq([i \in 1..Len(rest) |-> Trim(StringText(rest[i]))], NonEmpty))
    ELSE IF v.t = "str" THEN StrArr(SentencesOf(v.v))
    ELSE EmptyArr

\* toArrayStrings: texts of an array (trimmed, blanks dropped), sentences of
\* a string, nothing otherwise; Throw when String raises
toArrayStrings(v) ==
    IF ~Truthy(v) THEN EmptyArr
    ELSE IF v.t = "arr" THEN
        IF StringThrows(v) THEN Throw
        ELSE StrArr(SelectSeq([i \in 1..Len(v.v) |-> Trim(StringText(v.v[i]))], NonEmpty))
    ELSE IF v.t = "str" THEN StrArr(SentencesOf(v.v))
    ELSE EmptyArr

\* the texts of an array of string values
Texts(a) == [i \in 1..Len(a.v) |-> a.v[i].v]

\* Array.from(new Set(arr.map(String).map(trim).filter(Boolean))) on texts
RECURSIVE DedupFrom(_, _)
DedupFrom(texts, seen) ==
    IF Len(texts) = 0 THEN <<>>
    ELSE IF Head(texts) \in seen THEN DedupFrom(Tail(texts), seen)
    ELSE <<Head(texts)>> \o DedupFrom(Tail(texts), seen \cup {Head(texts)})

\* uniq without the Set: texts trimmed, blanks dropped, duplicates kept
uniqKeepingDuplicates(texts) == SelectSeq(MapSeq(texts, Trim), NonEmpty)

uniq(texts) == DedupFrom(SelectSeq(MapSeq(texts, Trim), NonEmpty), {})

\* ReplacementBehavior whose object branch falls back on the top-level keys
ReplacementBehaviorTopLevelToo(parsed) ==
    LET rb == Get(parsed, "replacement_behavior")
    IN IF Truthy(rb) /\ TypeofObject(rb) THEN
           <<Probe(rb, <<"skill", "name", "label">>,
                   Probe(parsed, <<"replacement", "replacement_skill">>, EmptyStr)),
             Probe(rb, <<"modality", "medium">>,
                   JsOr(Get(parsed, "replacement_modality"), EmptyStr))>>
       ELSE IF rb.t = "str" THEN
           LET parts == SelectSeq(MapSeq(Split(rb.v, {"|", "-", ":"}), Trim), NonEmpty)
           IN <<IF Len(parts) >= 1 THEN Str(parts[1]) ELSE rb,
                IF Len(parts) >= 2 THEN Str(parts[2]) ELSE EmptyStr>>
       ELSE <<Probe(parsed, <<"replacement", "replacement_skill">>, EmptyStr),
              JsOr(Get(parsed, "replacement_modality"), EmptyStr)>>

\* the three branches of replacement_behavior: <<skill, modality>>
ReplacementBehavior(parsed) ==
    LET rb == Get(parsed, "replacement_behavior")
    IN IF Truthy(rb) /\ TypeofObject(rb) THEN
           <<Probe(rb, <<"skill", "name", "label">>, EmptyStr),
             Probe(rb, <<"modality", "medium">>, EmptyStr)>>
       ELSE IF rb.t = "str" THEN
           LET parts == SelectSeq(MapSeq(Split(rb.v, {"|", "-", ":"}), Trim), NonEmpty)
           IN <<IF Len(parts) >= 1 THEN Str(parts[1]) ELSE rb,
                IF Len(parts) >= 2 THEN Str(parts[2]) ELSE EmptyStr>>
       ELSE <<Probe(parsed, <<"replacement", "replacement_skill">>, EmptyStr),
              JsOr(Get(parsed, "replacement_modality"), EmptyStr)>>

\* parsed.k1?.k2
GetOpt(o, k1, k2) ==
    IF Get(o, k1).t \in {"undefined", "null"} THEN Undef ELSE Get(Get(o, k1), k2)

ReviewAfterDays(parsed) ==
    JsOr(JsOr(JsOr(Get(parsed, "review_after_days"), GetOpt(parsed, "meta", "review_after_days")),
              Get(parsed, "review")), NumInt(ReviewDefault))

\* SafetyFlag with the three conditions joined by "and"
SafetyFlagAllOf(parsed) ==
    Bool(/\ Truthy(Get(parsed, "safety_flag"))
         /\ Truthy(GetOpt(parsed, "meta", "safety_flag"))
         /\ Get(parsed, "severity") = Str(SevereLiteral))

SafetyFlag(parsed) ==
    Bool(\/ Truthy(Get(parsed, "safety_flag"))
         \/ Truthy(GetOpt(parsed, "meta", "safety_flag"))
         \/ Get(parsed, "severity") = Str(SevereLiteral))

\* the strategy fall-back without slice(0, 6): the whole source list
StrategyFallbackUncapped(strategies, source) ==
    IF Len(strategies) = 0 THEN source ELSE strategies

\* the strategy fall-back: the first StrategyCap entries of the source list
StrategyFallback(strategies, source) ==
    IF Len(strategies) = 0 THEN Take(source, StrategyCap) ELSE strategies

\* BehaviorFallback with the note dropped: the record C4 must tell apart from
\* the one the code builds
BehaviorFallbackDroppingNote(fallbackNote) ==
    Obj(<<M("behavior_goal", EmptyStr),
          M("summary", EmptyStr),
          M("antecedents", EmptyArr),
          M("consequences", EmptyArr),
          M("function_analysis", EmptyStr),
          M("antecedent_strategies", EmptyArr),
          M("replacement_behavior", Obj(<<M("skill", EmptyStr), M("modality", EmptyStr)>>)),
          M("consequence_strategies", EmptyArr),
          M("data_collection", Obj(<<M("metric", EmptyStr), M("tool", EmptyStr)>>)),
          M("review_after_days", NumInt(ReviewDefault)),
          M("safety_flag", Bool(FALSE)),
          M("suggestions", Arr(<<Str(NoValidAiOutput)>>)),
          M("customizations", EmptyArr),
          M("parent_instructions", EmptyStr),
          M("meta", Obj(<<>>))>>)

\* the record normalizeBehavior returns when parsed is not an object
BehaviorFallback(fallbackNote) ==
    Obj(<<M("behavior_goal", EmptyStr),
          M("summary", JsOr(fallbackNote, EmptyStr)),
          M("antecedents", EmptyArr),
          M("consequences", EmptyArr),
          M("function_analysis", EmptyStr),
          M("antecedent_strategies", EmptyArr),
          M("replacement_behavior", Obj(<<M("skill", EmptyStr), M("modality", EmptyStr)>>)),
          M("consequence_strategies", EmptyArr),
          M("data_collection", Obj(<<M("metric", EmptyStr), M("tool", EmptyStr)>>)),
          M("review_after_days", NumInt(ReviewDefault)),
          M("safety_flag", Bool(FALSE)),
          M("suggestions", Arr(<<Str(NoValidAiOutput)>>)),
          M("customizations", EmptyArr),
          M("parent_instructions", EmptyStr),
          M("meta", Obj(<<>>))>>)

normalizeBehavior(parsed, fallbackNote) ==
    IF ~Truthy(parsed) \/ ~TypeofObject(parsed) THEN BehaviorFallback(fallbackNote)
    ELSE
    LET summary == Probe(parsed, <<"summary", "behavior_goal", "smart_goal", "overview">>, EmptyStr)
        goal == Probe(parsed, <<"behavior_goal", "smart_goal", "summary">>, EmptyStr)
        anteA == toArrayStrings(Probe(parsed, <<"antecedents", "antecedent", "preceding">>,
                                      Get(parsed, "before")))
        consA == toArrayStrings(Probe(parsed, <<"consequences", "consequence", "following">>,
                                      Get(parsed, "after")))
        funcAnalysis ==
            Probe(parsed, <<"function_analysis", "behavior_function", "hypothesized_function",
                            "function">>, EmptyStr)
        anteStratA ==
            toArrayStrings(Probe(parsed, <<"antecedent_strategies", "antecedentStrategies",
                                           "prevention", "proactive">>, Get(parsed, "prep")))
        consStratA ==
            toArrayStrings(Probe(parsed, <<"consequence_strategies", "consequenceStrategies",
                                           "response_strategies", "reactive">>,
                                 Get(parsed, "reinforcement")))
        replacement == ReplacementBehavior(parsed)
        dc == Get(parsed, "data_collection")
        metric ==
            JsOr(JsOr(JsOr(JsAnd(dc, JsOr(Get(dc, "metric"), Get(dc, "measure"))),
                           GetOpt(parsed, "measurement", "type")),
                      Get(parsed, "metric")), EmptyStr)
        tool ==
            JsOr(JsOr(JsOr(JsAnd(dc, JsOr(Get(dc, "tool"), Get(dc, "instrument"))),
                           GetOpt(parsed, "measurement", "sheet")),
                      Get(parsed, "tool")), EmptyStr)
        suggA == toArrayStrings(Probe(parsed, <<"suggestions", "recommendations">>,
                                      Get(parsed, "advice")))
        custA == toArrayStrings(Probe(parsed, <<"customizations", "tweaks">>,
                                      Get(parsed, "modifications")))
        parentInstr ==
            Probe(parsed, <<"parent_instructions", "caregiver_instructions", "home_instructions">>,
                  EmptyStr)
        meta ==
            Obj(<<M("model_provided_confidence",
                    Probe(parsed, <<"confidence", "confidence_score">>, Null)),
                  M("notes", Probe(parsed, <<"_notes", "notes">>, EmptyStr))>>)
    IN IF Throw \in {anteA, consA, anteStratA, consStratA, suggA, custA}
       THEN Throw
       ELSE
       LET ante0 == Texts(anteA)
           cons0 == Texts(consA)
           anteStrat0 == Texts(anteStratA)
           consStrat0 == Texts(consStratA)
           sugg0 == Texts(suggA)
           cust0 == Texts(custA)
           allStrings == Flatten(MapSeq(collectStrings(parsed), SentencesOf))
           anteCand == KeywordSentences(allStrings, antecedentKeywords)
           ante1 == IF Len(ante0) = 0 /\ Len(anteCand) > 0 THEN anteCand ELSE ante0
           consCand == KeywordSentences(allStrings, consequenceKeywords)
           cons1 == IF Len(cons0) = 0 /\ Len(consCand) > 0 THEN consCand ELSE cons0
           anteStrat1 == StrategyFallback(anteStrat0, sugg0)
           consStrat1 == StrategyFallback(consStrat0, cust0)
           summaryCand == KeywordSentences(splitSentences(summary), consequenceKeywords)
           cons2 == IF Len(cons1) = 0 /\ Truthy(summary) /\ Len(summaryCand) > 0
                    THEN summaryCand ELSE cons1
       IN Obj(<<M("behavior_goal", goal),
                M("summary", summary),
                M("antecedents", StrArr(uniq(ante1))),
                M("consequences", StrArr(uniq(cons2))),
                M("function_analysis", funcAnalysis),
                M("antecedent_strategies", StrArr(uniq(anteStrat1))),
                M("replacement_behavior",
                  Obj(<<M("skill", replacement[1]), M("modality", replacement[2])>>)),
                M("consequence_strategies", StrArr(uniq(consStrat1))),
                M("data_collection", Obj(<<M("metric", metric), M("tool", tool)>>)),
                M("review_after_days", ReviewAfterDays(parsed)),
                M("safety_flag", SafetyFlag(parsed)),
                M("suggestions", StrArr(uniq(sugg0))),
                M("customizations", StrArr(uniq(cust0))),
                M("parent_instructions", parentInstr),
                M("meta", meta)>>)

----------------------------------------------------------------------------
(* JSON.parse and safeParseJSON *)

\* JSON white space
IsJsonSpace(c) == c \in {" ", "\t", "\n", "\r"}

\* the first position at or after i that holds no white space
RECURSIVE SkipWs(_, _)
SkipWs(s, i) == IF i <= Len(s) /\ IsJsonSpace(s[i]) THEN SkipWs(s, i + 1) ELSE i

IsDigit(c) == c \in {"0", "1", "2", "3", "4", "5", "6", "7", "8", "9"}
DigitVal(c) == CHOOSE n \in 0..9 : Digit(n) = c

RECURSIVE Gcd(_, _)
Gcd(a, b) == IF b = 0 THEN a ELSE Gcd(b, a % b)

RECURSIVE Pow10(_)
Pow10(k) == IF k = 0 THEN 1 ELSE 10 * Pow10(k - 1)

\* the number n/d in lowest terms, d > 0
Rational(n, d) ==
    LET a == IF n < 0 THEN 0 - n ELSE n
        g == Gcd(a, d)
    IN IF n = 0 THEN Num(0, 1) ELSE Num(n \div g, d \div g)

\* the position after the run of digits that starts at i
RECURSIVE DigitsEnd(_, _)
DigitsEnd(s, i) == IF i <= Len(s) /\ IsDigit(s[i]) THEN DigitsEnd(s, i + 1) ELSE i

\* the value of the digits s[i..j-1]
RECURSIVE DigitsValue(_, _, _)
DigitsValue(s, i, j) ==
    IF i >= j THEN 0 ELSE DigitsValue(s, i, j - 1) * 10 + DigitVal(s[j - 1])

ParseFail == [ok |-> FALSE, v |-> Null, i |-> 0]
ParseOk(v, i) == [ok |-> TRUE, v |-> v, i |-> i]

\* a JSON number at position i: -? (0 | [1-9][0-9]*) (.[0-9]+)? ([eE][+-]?[0-9]+)?
ParseNumber(s, i) ==
    LET neg == i <= Len(s) /\ s[i] = "-"
        a == IF neg THEN i + 1 ELSE i
        b == IF a <= Len(s) /\ s[a] = "0" THEN a + 1 ELSE DigitsEnd(s, a)
        hasFrac == b <= Len(s) /\ s[b] = "."
        c == IF hasFrac THEN DigitsEnd(s, b + 1) ELSE b
        hasExp == c <= Len(s) /\ s[c] \in {"e", "E"}
        signed == hasExp /\ c + 1 <= Len(s) /\ s[c + 1] \in {"+", "-"}
        e0 == IF signed THEN c + 2 ELSE c + 1
        e1 == IF hasExp THEN DigitsEnd(s, e0) ELSE c
        expNeg == signed /\ s[c + 1] = "-"
        expVal == IF hasExp THEN DigitsValue(s, e0, e1) ELSE 0
        fracLen == IF hasFrac THEN c - (b + 1) ELSE 0
        mant == DigitsValue(s, a, b) * Pow10(fracLen) +
                (IF hasFrac THEN DigitsValue(s, b + 1, c) ELSE 0)
        num == IF expNeg THEN mant ELSE mant * Pow10(expVal)
        den == IF expNeg THEN Pow10(fracLen) * Pow10(expVal) ELSE Pow10(fracLen)
    IN IF b = a \/ (hasFrac /\ c = b + 1) \/ (hasExp /\ e1 = e0) THEN ParseFail
       ELSE ParseOk(Rational(IF neg THEN 0 - num ELSE num, den), e1)

\* the text of a JSON string whose opening quote precedes position i; the
\* escapes \" \\ \/ \n \r \t are read (no text of the model holds \b, \f or
\* \u), a raw control character ends the parse
RECURSIVE ParseString(_, _, _)
ParseString(s, i, acc) ==
    IF i > Len(s) THEN ParseFail
    ELSE IF s[i] = "\"" THEN ParseOk(Str(acc), i + 1)
    ELSE IF s[i] \in {"\n", "\r", "\t"} THEN ParseFail
    ELSE IF s[i] = "\\" THEN
        IF i + 1 > Len(s) THEN ParseFail
        ELSE IF s[i + 1] \in {"\"", "\\", "/"} THEN ParseString(s, i + 2, Append(acc, s[i + 1]))
        ELSE IF s[i + 1] = "n" THEN ParseString(s, i + 2, Append(acc, "\n"))
        ELSE IF s[i + 1] = "r" THEN ParseString(s, i + 2, Append(acc, "\r"))
        ELSE IF s[i + 1] = "t" THEN ParseString(s, i + 2, Append(acc, "\t"))
        ELSE ParseFail
    ELSE ParseString(s, i + 1, Append(acc, s[i]))

\* members with key k set to v: a repeated key keeps its place, takes the
\* last value
SetMember(members, k, v) ==
    IF \E j \in 1..Len(members) : members[j].k = k
    THEN [j \in 1..Len(members) |->
            IF members[j].k = k THEN [k |-> k, v |-> v] ELSE members[j]]
    ELSE Append(members, [k |-> k, v |-> v])

StartsWith(s, i, word) ==
    i + Len(word) - 1 <= Len(s) /\ SubSeq(s, i, i + Len(word) - 1) = word

RECURSIVE ParseValue(_, _)
RECURSIVE ParseElements(_, _, _)
RECURSIVE ParseMembers(_, _, _)

\* the JSON value that starts at the first non-space position at or after i
ParseValue(s, i) ==
    LET j == SkipWs(s, i)
    IN IF j > Len(s) THEN ParseFail
       ELSE IF s[j] = "{" THEN
            IF SkipWs(s, j + 1) <= Len(s) /\ s[SkipWs(s, j + 1)] = "}"
            THEN ParseOk(Obj(<<>>), SkipWs(s, j + 1) + 1)
            ELSE ParseMembers(s, SkipWs(s, j + 1), <<>>)
       ELSE IF s[j] = "[" THEN
            IF SkipWs(s, j + 1) <= Len(s) /\ s[SkipWs(s, j + 1)] = "]"
            THEN ParseOk(Arr(<<>>), SkipWs(s, j + 1) + 1)
            ELSE ParseElements(s, j + 1, <<>>)
       ELSE IF s[j] = "\"" THEN ParseString(s, j + 1, <<>>)
       ELSE IF s[j] = "-" \/ IsDigit(s[j]) THEN ParseNumber(s, j)
       ELSE IF StartsWith(s, j, <<"t", "r", "u", "e">>) THEN ParseOk(Bool(TRUE), j + 4)
       ELSE IF StartsWith(s, j, <<"f", "a", "l", "s", "e">>) THEN ParseOk(Bool(FALSE), j + 5)
       ELSE IF StartsWith(s, j, <<"n", "u", "l", "l">>) THEN ParseOk(Null, j + 4)
       ELSE ParseFail

\* the elements of an array from position i, up to the closing bracket
ParseElements(s, i, acc) ==
    LET r == ParseValue(s, i)
        j == SkipWs(s, r.i)
    IN IF ~r.ok \/ j > Len(s) THEN ParseFail
       ELSE IF s[j] = "," THEN ParseElements(s, j + 1, Append(acc, r.v))
       ELSE IF s[j] = "]" THEN ParseOk(Arr(Append(acc, r.v)), j + 1)
       ELSE ParseFail

\* the members of an object from position i (no white space there), up to
\* the closing brace
ParseMembers(s, i, acc) ==
    IF i > Len(s) \/ s[i] # "\"" THEN ParseFail
    ELSE
    LET key == ParseString(s, i + 1, <<>>)
        colon == SkipWs(s, key.i)
    IN IF ~key.ok \/ colon > Len(s) \/ s[colon] # ":" THEN ParseFail
       ELSE
       LET r == ParseValue(s, colon + 1)
           j == SkipWs(s, r.i)
       IN IF ~r.ok \/ j > Len(s) THEN ParseFail
          ELSE IF s[j] = "," THEN
                ParseMembers(s, SkipWs(s, j + 1), SetMember(acc, key.v.v, r.v))
          ELSE IF s[j] = "}" THEN ParseOk(Obj(SetMember(acc, key.v.v, r.v)), j + 1)
          ELSE ParseFail

\* JSON.parse(text): the value, or Throw for a SyntaxError
JsonParse(text) ==
    LET r == ParseValue(text, 1)
    IN IF r.ok /\ SkipWs(text, r.i) > Len(text) THEN r.v ELSE Throw

\* a lazy match instead: from the first "{" to the first "}" after it
BraceMatchShortest(raw) ==
    LET opens == {i \in 1..Len(raw) : raw[i] = "{"}
        first == CHOOSE i \in opens : \A j \in opens : i <= j
        closes == {i \in 1..Len(raw) : raw[i] = "}" /\ opens # {} /\ i > first}
        nearest == CHOOSE i \in closes : \A j \in closes : i <= j
    IN IF opens = {} \/ closes = {} THEN <<>> ELSE SubSeq(raw, first, nearest)

\* raw.match(/\{[\s\S]*\}/): from the first "{" to the last "}" after it,
\* or <<>> for no match
BraceMatch(raw) ==
    LET opens == {i \in 1..Len(raw) : raw[i] = "{"}
        first == CHOOSE i \in opens : \A j \in opens : i <= j
        closes == {i \in 1..Len(raw) : raw[i] = "}" /\ opens # {} /\ i > first}
        last == CHOOSE i \in closes : \A j \in closes : i >= j
    IN IF opens = {} \/ closes = {} THEN <<>> ELSE SubSeq(raw, first, last)

\* the second attempt shared by safeParseJSON and POST: parse the brace span
ParseBraceSpan(raw) ==
    IF BraceMatch(raw) = <<>> THEN Null
    ELSE IF JsonParse(BraceMatch(raw)) = Throw THEN Null
    ELSE JsonParse(BraceMatch(raw))

safeParseJSON(raw) ==
    IF ~Truthy(raw) \/ raw.t # "str" THEN Null
    ELSE IF JsonParse(raw.v) # Throw THEN JsonParse(raw.v)
    ELSE ParseBraceSpan(raw.v)

----------------------------------------------------------------------------
(* The values the functions are applied to *)

\* the longest generated list (above both caps of 6)
MaxItems == 7

ItemTexts == << <<"s1">>, <<"s2">>, <<"s3">>, <<"s4">>, <<"s5">>, <<"s6">>, <<"s7">>, <<"s8">>,
                <<"s9">> >>

\* the list of the first n item texts
List(n) == StrArr(SubSeq(ItemTexts, 1, n))

\* an object on which String raises
ToStringObject == Obj(<<M("toString", NumInt(1))>>)

\* entries of a suggestions array, as upstream models write them
Entries ==
    { Str(<<"x">>), EmptyStr, Null, NumInt(3), Arr(<<Str(<<"p">>), Null>>),
      Obj(<<M("text", Str(<<"y">>)), M("confidence", Num(1, 2))>>),
      Obj(<<M("title", Str(<<"z">>)), M("reason", Str(<<"r">>)), M("confidence", Str(<<"h">>))>>),
      Obj(<<M("text", EmptyStr), M("label", Str(<<"l">>)), M("explanation", Str(<<"e">>)),
            M("confidence", NumInt(1))>>),
      Obj(<<M("rationale", Str(<<"w">>))>>),
      ToStringObject }

\* arrays of at most two entries
EntryArrays ==
    {EmptyArr} \cup {Arr(<<a>>) : a \in Entries} \cup {Arr(<<a, b>>) : a, b \in Entries}

\* member values: right and wrong types, empty and blank ones
MemberValues ==
    { EmptyStr, Str(<<"a">>), Str(<<" ">>), Str(<<"b", "\r", "\n", " ", "\n", "c", ":", "d">>),
      NumInt(5), NumInt(0), Bool(TRUE), Null, EmptyArr,
      List(2), List(MaxItems),
      Arr(<<Str(<<" ", "a", " ">>), EmptyStr, Str(<<" ">>), Str(<<"a">>)>>),
      Arr(<<ToStringObject>>),
      Arr(<<Str(<<"x">>), Obj(<<M("text", Str(<<"y">>)), M("confidence", Num(1, 2))>>)>>),
      Obj(<<M("type", Str(<<"k">>)), M("review_after_days", NumInt(7))>>) }

MemberKeys ==
    <<"summary", "smart_goal", "overview", "task_analysis_steps", "tasks", "customizations",
      "suggestions", "subgoals", "goals", "review_after_days", "confidence", "meta">>

KeyPairs == {p \in (1..Len(MemberKeys)) \X (1..Len(MemberKeys)) : p[1] < p[2]}

\* the objects of at most two members, in the order of MemberKeys
ParsedObjects ==
    {Obj(<<>>)}
    \cup {Obj(<<M(MemberKeys[i], v)>>) : i \in 1..Len(MemberKeys), v \in MemberValues}
    \cup {Obj(<<M(MemberKeys[p[1]], v), M(MemberKeys[p[2]], w)>>) :
            p \in KeyPairs, v \in MemberValues, w \in MemberValues}

\* parsed values that are no object for the normalizers
NonObjects == {Null, EmptyStr, Str(<<"t">>), NumInt(0), NumInt(5), Bool(TRUE), Bool(FALSE)}

FallbackNotes == {EmptyStr, Str(<<"n", "o", "t", "e">>)}

----------------------------------------------------------------------------
(* The functions applied to one value each *)

NoResponse == [status |-> 0, body |-> Undef]

\* the handler's variables while no request is handled
PostIdle ==
    /\ pc = "idle"
    /\ req = Undef
    /\ env = Undef
    /\ upstream = Undef
    /\ calls = 0
    /\ response = NoResponse

InitNorm ==
    /\ \/ input \in NonObjects /\ note \in FallbackNotes
       \/ input \in ParsedObjects \cup EntryArrays /\ note = EmptyStr
    /\ fn = "none"
    /\ out = Undef
    /\ PostIdle

CallNormalizeAi ==
    /\ pc = "idle" /\ fn = "none"
    /\ fn' = "normalizeAi"
    /\ out' = normalizeAi(input, note)
    /\ UNCHANGED <<input, note, pc, req, env, upstream, calls, response>>

CallNormalizeBehavior ==
    /\ pc = "idle" /\ fn = "none"
    /\ fn' = "normalizeBehavior"
    /\ out' = normalizeBehavior(input, note)
    /\ UNCHANGED <<input, note, pc, req, env, upstream, calls, response>>

CallEnsureSuggestionObjects ==
    /\ pc = "idle" /\ fn = "none"
    /\ fn' = "ensureSuggestionObjects"
    /\ out' = ensureSuggestionObjects(input)
    /\ UNCHANGED <<input, note, pc, req, env, upstream, calls, response>>

NextNorm == CallNormalizeAi \/ CallNormalizeBehavior \/ CallEnsureSuggestionObjects

SpecNorm == InitNorm /\ [][NextNorm]_vars

----------------------------------------------------------------------------
(* POST: the pure steps of the handler *)

\* the fallback note is cut to 400 symbols, .slice(0, 400)
NoteCap == 400

\* planType === 'behavioral' ? 'behavior' : analysisType (default 'general')
EffectiveAnalysisType(body) ==
    IF Get(body, "planType") = Str(<<"behavioral">>) THEN Str(<<"behavior">>)
    ELSE IF Get(body, "analysisType") = Undef THEN Str(<<"general">>)
    ELSE Get(body, "analysisType")

IsBehavior(body) == EffectiveAnalysisType(body) = Str(<<"behavior">>)

\* !textNote && !audioUrl
FailsValidation(body) == ~Truthy(Get(body, "textNote")) /\ ~Truthy(Get(body, "audioUrl"))

\* (curriculumQuery || textNote || '').toLowerCase() raises on a truthy value
\* that is no string
QueryThrows(body) ==
    LET q == JsOr(JsOr(Get(body, "curriculumQuery"), Get(body, "textNote")), EmptyStr)
    IN q.t # "str"

\* !!relevant: some curriculum entry matches a non-empty query
UsedCurriculum(body, curriculumMatches) ==
    LET q == JsOr(JsOr(Get(body, "curriculumQuery"), Get(body, "textNote")), EmptyStr)
    IN Bool(curriculumMatches /\ NonEmpty(Trim(q.v)))

\* new Date().toISOString(): the clock is outside the model
SentAt == Str(<<"sentAt">>)

ErrorBody(message) == Obj(<<M("error", Str(<<message>>))>>)

\* String(parsed.k1 || parsed.k2 || ... || '').slice(0, 400), or Throw
NoteOf(parsed, keys) ==
    LET x == Probe(parsed, keys, EmptyStr)
    IN IF StringThrows(x) THEN Throw ELSE Str(Take(StringText(x), NoteCap))

\* a record with member k replaced (or added last)
With(o, k, v) == Obj(SetMember(o.v, <<k>>, v))

\* normalized.suggestions = ensureSuggestionObjects(normalized.suggestions ||
\* parsed.suggestions || []), and the same for the customizations; a raise
\* of the normalizer passes through
WithEntries(n, parsed) ==
    IF n = Throw THEN Throw
    ELSE With(With(n, "suggestions",
                   ensureSuggestionObjects(
                       JsOr(JsOr(Get(n, "suggestions"), Get(parsed, "suggestions")), EmptyArr))),
              "customizations",
              ensureSuggestionObjects(
                  JsOr(JsOr(Get(n, "customizations"), Get(parsed, "customizations")), EmptyArr)))

\* the arguments are evaluated first: a raise of String passes through
CallWithNote(fallbackNote, normalized) == IF fallbackNote = Throw THEN Throw ELSE normalized

BehaviorNote(parsed) == NoteOf(parsed, <<"summary", "behavior_goal", "smart_goal">>)
GeneralNote(parsed) == NoteOf(parsed, <<"summary", "smart_goal">>)

\* the normalizer of the plan type applied to parsed, as POST applies it:
\* the behavior record gets suggestion entries, the general record does not
PostNormalize(parsed, behavior) ==
    IF behavior
    THEN WithEntries(CallWithNote(BehaviorNote(parsed),
                                  normalizeBehavior(parsed, BehaviorNote(parsed))), parsed)
    ELSE CallWithNote(GeneralNote(parsed), normalizeAi(parsed, GeneralNote(parsed)))

\* s => (typeof s === 'object' ? s.text || '' : String(s)) over an array
TextOfEntry(s) ==
    IF TypeofObject(s) THEN JsOr(Get(s, "text"), EmptyStr) ELSE Str(StringText(s))

TextsOf(list) ==
    IF list.t = "arr" THEN Arr([i \in 1..Len(list.v) |-> TextOfEntry(list.v[i])]) ELSE EmptyArr

\* the numeric confidences of the elements of an array, in order
Confidences(list) ==
    IF list.t = "arr"
    THEN SelectSeq([i \in 1..Len(list.v) |-> Get(list.v[i], "confidence")],
                   LAMBDA c : c.t = "num")
    ELSE <<>>

RECURSIVE SumOf(_)
SumOf(nums) ==
    IF Len(nums) = 0 THEN Num(0, 1)
    ELSE LET rest == SumOf(Tail(nums))
         IN Rational(Head(nums).n * rest.d + rest.n * Head(nums).d, Head(nums).d * rest.d)

\* confidences.reduce((a, b) => a + b, 0) / confidences.length
Mean(nums) == Rational(SumOf(nums).n, SumOf(nums).d * Len(nums))

ConfidenceOverall(normalized) ==
    LET confidences == Confidences(Get(normalized, "suggestions"))
        meta == Get(normalized, "meta")
    IN IF Len(confidences) > 0 THEN Mean(confidences)
       ELSE IF Truthy(meta) /\ Truthy(Get(meta, "model_provided_confidence"))
            THEN Get(meta, "model_provided_confidence")
       ELSE Null

\* the body of the 200 response
Envelope(parsed, normalized, analysisType, usedCurriculum) ==
    Obj(<<M("ai",
            Obj(<<M("raw", parsed),
                  M("normalized",
                    With(normalized, "meta",
                         With(JsOr(Get(normalized, "meta"), Obj(<<>>)), "confidence_overall",
                              ConfidenceOverall(normalized)))),
                  M("suggestions", TextsOf(Get(normalized, "suggestions"))),
                  M("customizations", TextsOf(Get(normalized, "customizations")))>>)),
          M("meta", Obj(<<M("sentAt", SentAt), M("usedCurriculum", usedCurriculum),
                          M("analysisType", analysisType)>>))>>)

\* the body of the 500 response for an answer that holds no JSON
InvalidJsonBody(raw, usedCurriculum) ==
    Obj(<<M("error", Str(<<"AI response not valid JSON">>)),
          M("hint", Str(<<"AI did not return parseable JSON. Check logs (raw) for debugging.">>)),
          M("raw", raw),
          M("meta", Obj(<<M("sentAt", SentAt), M("usedCurriculum", usedCurriculum)>>))>>)

\* let parsed = safeParseJSON(raw); if (!parsed) the brace span once more
PostParse(raw) ==
    IF Truthy(safeParseJSON(raw)) \/ BraceMatch(raw.v) = <<>> THEN safeParseJSON(raw)
    ELSE ParseBraceSpan(raw.v)

----------------------------------------------------------------------------
(* POST: the mock branch (MOCK_AI === '1') *)

\* a list of n distinct Arabic texts of the mock data, one symbol each
MockList(name, n) == Arr([i \in 1..n |-> Str(<<name, Digit(i)>>)])

fakeParsedBehavior ==
    Obj(<<M("behavior_goal", Str(<<"mock:behavior_goal">>)),
          M("summary", Str(<<"mock:summary">>)),
          M("antecedents", MockList("mock:antecedent", 2)),
          M("consequences", MockList("mock:consequence", 2)),
          M("function_analysis", Str(<<"mock:function_analysis">>)),
          M("antecedent_strategies", MockList("mock:antecedent_strategy", 2)),
          M("replacement_behavior",
            Obj(<<M("skill", Str(<<"mock:skill">>)), M("modality", Str(<<"mock:modality">>))>>)),
          M("consequence_strategies", MockList("mock:consequence_strategy", 2)),
          M("data_collection",
            Obj(<<M("metric", Str(<<"mock:metric">>)), M("tool", Str(<<"mock:tool">>))>>)),
          M("review_after_days", NumInt(14)),
          M("safety_flag", Bool(FALSE)),
          M("suggestions", MockList("mock:suggestion", 2)),
          M("customizations", MockList("mock:customization", 2)),
          M("parent_instructions", Str(<<"mock:parent_instructions">>))>>)

fakeParsed ==
    Obj(<<M("smart_goal", Str(<<"mock:smart_goal">>)),
          M("summary", Str(<<"mock:summary">>)),
          M("teaching_strategy", Str(<<"mock:teaching_strategy">>)),
          M("task_analysis_steps", MockList("mock:step", 6)),
          M("subgoals", MockList("mock:subgoal", 2)),
          M("activities",
            Arr(<<Obj(<<M("type", Str(<<"mock:type1">>)), M("name", Str(<<"mock:name1">>))>>),
                  Obj(<<M("type", Str(<<"mock:type2">>)), M("name", Str(<<"mock:name2">>))>>)>>)),
          M("execution_plan", MockList("mock:execution", 2)),
          M("reinforcement",
            Obj(<<M("type", Str(<<"mock:reinforcement">>)), M("schedule", Str(<<"mock:schedule">>))>>)),
          M("measurement",
            Obj(<<M("type", Str(<<"Accuracy">>)), M("sheet", Str(<<"mock:sheet">>))>>)),
          M("generalization_plan", MockList("mock:generalization", 1)),
          M("accommodations", MockList("mock:accommodation", 2)),
          M("suggestions", MockList("mock:suggestion", 2)),
          M("customizations", MockList("mock:customization", 2)),
          M("parent_instructions", Str(<<"mock:parent_instructions">>))>>)

\* normalizedChecked of either mock branch: both lists become entries
MockNormalized(behavior) ==
    IF behavior
    THEN WithEntries(normalizeBehavior(fakeParsedBehavior, Get(fakeParsedBehavior, "summary")),
                     Obj(<<>>))
    ELSE WithEntries(normalizeAi(fakeParsed, Get(fakeParsed, "summary")), Obj(<<>>))

\* list.map(s => s.text)
EntryTexts(list) == Arr([i \in 1..Len(list.v) |-> Get(list.v[i], "text")])

\* resultMock
MockEnvelope(raw, normalizedChecked, usedCurriculum) ==
    Obj(<<M("ai",
            Obj(<<M("raw", raw),
                  M("normalized", normalizedChecked),
                  M("suggestions", EntryTexts(Get(normalizedChecked, "suggestions"))),
                  M("customizations", EntryTexts(Get(normalizedChecked, "customizations")))>>)),
          M("meta", Obj(<<M("sentAt", SentAt), M("usedCurriculum", usedCurriculum)>>))>>)

MockBody(behavior, usedCurriculum) ==
    MockEnvelope(IF behavior THEN fakeParsedBehavior ELSE fakeParsed, MockNormalized(behavior),
                 usedCurriculum)

----------------------------------------------------------------------------
(* POST: the handler as a state machine *)

\* an object of the given members, the undefined ones left out
ObjectOf(members) == Obj(SelectSeq(members, LAMBDA m : m.v # Undef))

\* request bodies: the fields the decisions of the handler read
Bodies ==
    { ObjectOf(<<M("textNote", tn), M("audioUrl", au), M("analysisType", at), M("planType", pt)>>) :
        tn \in {Undef, EmptyStr, Str(<<"n", "o", "t", "e">>), NumInt(5)},
        au \in {Undef, Str(<<"url">>)},
        at \in {Undef, Str(<<"general">>), Str(<<"behavior">>), Str(<<"other">>)},
        pt \in {Undef, Str(<<"behavioral">>), Str(<<"general">>)} }

Envs == [mock : BOOLEAN, key : BOOLEAN, curriculumMatches : BOOLEAN]

\* the JSON values upstream answers are written from
AnswerValues ==
    {o \in ParsedObjects : Len(o.v) <= 1}
    \cup {Obj(<<M("suggestions", v), M("confidence", w)>>) :
            v \in MemberValues, w \in {NumInt(0), Num(3, 4), Str(<<"a">>)}}
    \cup {Obj(<<M("suggestions", v), M("confidence_score", Num(1, 4))>>) : v \in MemberValues}
    \cup NonObjects \cup {EmptyArr, List(2)}

Prose == <<"here", " ", "is", " ", "your", " ", "answer", ":", " ">>

\* message contents: JSON, JSON inside prose, two objects, no JSON at all
Contents ==
    {Str(JsonText(v)) : v \in AnswerValues}
    \cup {Str(Prose \o JsonText(v) \o <<" ", "thanks">>) :
            v \in {Obj(<<>>), Obj(<<M("summary", Str(<<"o", "k">>))>>), NumInt(5)}}
    \cup {
          Str(JsonText(Obj(<<M("summary", Str(<<"a">>))>>)) \o <<" ", "and", " ">> \o
              JsonText(Obj(<<M("summary", Str(<<"b">>))>>))),
          Str(<<"sorry">>), Str(<<"{", "\"", "summary", "\"", ":">>), EmptyStr, Undef}

Answers ==
    {[kind |-> "reject", content |-> Undef], [kind |-> "error", content |-> Undef]}
    \cup {[kind |-> "ok", content |-> c] : c \in Contents}

Init ==
    /\ pc = "start"
    /\ req \in Bodies
    /\ env \in Envs
    /\ upstream = Undef
    /\ calls = 0
    /\ response = NoResponse
    /\ input = Undef
    /\ note = Undef
    /\ fn = "none"
    /\ out = Undef

Reply(status, body) ==
    /\ response' = [status |-> status, body |-> body]
    /\ pc' = "done"

\* what the catch clause answers
ReplyCaught == Reply(500, ErrorBody("err.message"))

\* input validation, then the curriculum query
Validate ==
    /\ pc = "start"
    /\ IF FailsValidation(req) THEN Reply(400, ErrorBody("la-yujad-nass-aw-rabit-sawti"))
       ELSE IF QueryThrows(req) THEN ReplyCaught
       ELSE pc' = "mock" /\ UNCHANGED response
    /\ UNCHANGED <<input, note, fn, out, req, env, upstream, calls>>

MockRespond ==
    /\ pc = "mock" /\ env.mock
    /\ Reply(200, MockBody(IsBehavior(req), UsedCurriculum(req, env.curriculumMatches)))
    /\ UNCHANGED <<input, note, fn, out, req, env, upstream, calls>>

MockOff ==
    /\ pc = "mock" /\ ~env.mock
    /\ pc' = "key"
    /\ UNCHANGED <<input, note, fn, out, req, env, upstream, calls, response>>

KeyMissing ==
    /\ pc = "key" /\ ~env.key
    /\ Reply(500, ErrorBody("OpenAI api key not configured"))
    /\ UNCHANGED <<input, note, fn, out, req, env, upstream, calls>>

\* the upstream called without the test of the key
CallUpstreamUnguarded ==
    /\ pc = "key"
    /\ calls' = calls + 1
    /\ pc' = "fetching"
    /\ UNCHANGED <<input, note, fn, out, req, env, upstream, response>>

CallUpstream ==
    /\ pc = "key" /\ env.key
    /\ calls' = calls + 1
    /\ pc' = "fetching"
    /\ UNCHANGED <<input, note, fn, out, req, env, upstream, response>>

UpstreamAnswers ==
    /\ pc = "fetching"
    /\ \E a \in Answers : upstream' = a
    /\ pc' = "answered"
    /\ UNCHANGED <<input, note, fn, out, req, env, calls, response>>

\* HandleAnswer without the test of the parsed value: an answer that holds no
\* JSON goes on to the normalizer
HandleAnswerUnchecked ==
    /\ pc = "answered"
    /\ IF upstream.kind = "reject" THEN ReplyCaught /\ UNCHANGED input
       ELSE IF upstream.kind = "error"
       THEN Reply(500, ErrorBody("upstream error data")) /\ UNCHANGED input
       ELSE /\ input' = PostParse(JsOr(upstream.content, EmptyStr))
            /\ pc' = "normalize" /\ UNCHANGED response
    /\ UNCHANGED <<note, fn, out, req, env, upstream, calls>>

\* res.ok, the message content, the JSON extractor
HandleAnswer ==
    /\ pc = "answered"
    /\ IF upstream.kind = "reject" THEN ReplyCaught /\ UNCHANGED input
       ELSE IF upstream.kind = "error"
       THEN Reply(500, ErrorBody("upstream error data")) /\ UNCHANGED input
       ELSE /\ input' = PostParse(JsOr(upstream.content, EmptyStr))
            /\ IF ~Truthy(input')
               THEN Reply(500, InvalidJsonBody(JsOr(upstream.content, EmptyStr),
                                               UsedCurriculum(req, env.curriculumMatches)))
               ELSE pc' = "normalize" /\ UNCHANGED response
    /\ UNCHANGED <<note, fn, out, req, env, upstream, calls>>

\* the normalizer of the effective analysis type; a raise goes to the catch
Normalize ==
    /\ pc = "normalize"
    /\ fn' = IF IsBehavior(req) THEN "normalizeBehavior" ELSE "normalizeAi"
    /\ note' = IF IsBehavior(req) THEN BehaviorNote(input) ELSE GeneralNote(input)
    /\ out' = PostNormalize(input, IsBehavior(req))
    /\ IF out' = Throw THEN ReplyCaught
       ELSE pc' = "respond" /\ UNCHANGED response
    /\ UNCHANGED <<input, req, env, upstream, calls>>

Respond ==
    /\ pc = "respond"
    /\ Reply(200, Envelope(input, out, EffectiveAnalysisType(req),
                           UsedCurriculum(req, env.curriculumMatches)))
    /\ UNCHANGED <<input, note, fn, out, req, env, upstream, calls>>

Next ==
    \/ Validate
    \/ MockRespond
    \/ MockOff
    \/ KeyMissing
    \/ CallUpstream
    \/ UpstreamAnswers
    \/ HandleAnswer
    \/ Normalize
    \/ Respond

Spec == Init /\ [][Next]_vars

\* the handler is an async function that runs on to its return, and the
\* promise of fetch settles: a step that can be taken is taken.  The mock
\* answer, the parse of the upstream answer and the normalizer call can be
\* taken exactly at "mock", "answered" and "normalize" and leave them, so
\* their weak fairness is that the handler is at none of them for ever.
SpecLive ==
    /\ Spec
    /\ WF_vars(Validate \/ MockOff \/ KeyMissing \/ CallUpstream \/ UpstreamAnswers \/ Respond)
    /\ []<>(pc # "mock")
    /\ []<>(pc # "answered")
    /\ []<>(pc # "normalize")

----------------------------------------------------------------------------
(* Claims: shapes of the canonical records *)

IsStr(x) == x.t = "str"
IsStrSeq(x) == x.t = "arr" /\ \A i \in 1..Len(x.v) : x.v[i].t = "str"
KeysOf(o) == [i \in 1..Len(o.v) |-> o.v[i].k[1]]

GeneralFields ==
    <<"smart_goal", "summary", "teaching_strategy", "task_analysis_steps", "subgoals",
      "activities", "execution_plan", "reinforcement", "measurement", "generalization_plan",
      "accommodations", "suggestions", "customizations", "parent_instructions", "meta">>

BehaviorFields ==
    <<"behavior_goal", "summary", "antecedents", "consequences", "function_analysis",
      "antecedent_strategies", "replacement_behavior", "consequence_strategies",
      "data_collection", "review_after_days", "safety_flag", "suggestions", "customizations",
      "parent_instructions", "meta">>

\* every field of the schema is a member of the record, neither null nor
\* undefined
FullyPopulated(record, fields) ==
    /\ record.t = "obj"
    /\ \A i \in 1..Len(fields) : Get(record, fields[i]).t \notin {"undefined", "null"}

NormalizerCalled == fn \in {"normalizeAi", "normalizeBehavior"}
FieldsOfCalled == IF fn = "normalizeAi" THEN GeneralFields ELSE BehaviorFields

\* C1 (as claimed): for every JSON value given as parsed and every fallback
\* note, normalizeAi and normalizeBehavior return without raising and every
\* top-level field of the canonical schema is present, neither null nor
\* undefined.  The code raises on {"task_analysis_steps": [{"toString": 1}]}.
C1_Totality ==
    (pc = "idle" /\ NormalizerCalled) =>
        (out # Throw /\ FullyPopulated(out, FieldsOfCalled))

\* C2 (as claimed): the record normalizeAi returns for an object has its
\* declared types whatever the types of the input's values: four strings,
\* the string members of reinforcement and measurement, five sequences of
\* strings, activities a sequence of {type, name}.  The code returns
\* summary = 5 for {"summary": 5}.
C2_GeneralTypes ==
    (pc = "idle" /\ fn = "normalizeAi" /\ input.t = "obj" /\ out # Throw) =>
        /\ \A k \in {"smart_goal", "summary", "teaching_strategy", "parent_instructions"} :
              IsStr(Get(out, k))
        /\ IsStr(Get(Get(out, "reinforcement"), "type"))
        /\ IsStr(Get(Get(out, "reinforcement"), "schedule"))
        /\ IsStr(Get(Get(out, "measurement"), "type"))
        /\ IsStr(Get(Get(out, "measurement"), "sheet"))
        /\ \A k \in {"task_analysis_steps", "subgoals", "execution_plan", "generalization_plan",
                     "accommodations"} : IsStrSeq(Get(out, k))
        /\ Get(out, "activities").t = "arr"
        /\ \A i \in 1..Len(Get(out, "activities").v) :
              KeysOf(Get(out, "activities").v[i]) = <<"type", "name">>

\* C3 (as claimed): the record normalizeBehavior returns has review_after_days
\* an integer and safety_flag a boolean, and its text fields strings, whatever
\* the types of the input values.  The code returns review_after_days = "a"
\* for {"review_after_days": "a"}.
C3_BehaviorTypes ==
    (pc = "idle" /\ fn = "normalizeBehavior" /\ out # Throw) =>
        /\ Get(out, "review_after_days").t = "num"
        /\ Get(out, "review_after_days").d = 1
        /\ Get(out, "safety_flag").t = "bool"
        /\ \A k \in {"behavior_goal", "summary", "function_analysis", "parent_instructions"} :
              IsStr(Get(out, k))
        /\ IsStr(Get(Get(out, "replacement_behavior"), "skill"))
        /\ IsStr(Get(Get(out, "replacement_behavior"), "modality"))
        /\ IsStr(Get(Get(out, "data_collection"), "metric"))
        /\ IsStr(Get(Get(out, "data_collection"), "tool"))

\* the type default of a field of either schema
DefaultOf(field) ==
    CASE field \in {"reinforcement"} -> Obj(<<M("type", EmptyStr), M("schedule", EmptyStr)>>)
      [] field \in {"measurement"} -> Obj(<<M("type", EmptyStr), M("sheet", EmptyStr)>>)
      [] field \in {"replacement_behavior"} ->
            Obj(<<M("skill", EmptyStr), M("modality", EmptyStr)>>)
      [] field \in {"data_collection"} -> Obj(<<M("metric", EmptyStr), M("tool", EmptyStr)>>)
      [] field \in {"meta"} -> Obj(<<>>)
      [] field \in {"review_after_days"} -> NumInt(14)
      [] field \in {"safety_flag"} -> Bool(FALSE)
      [] field \in {"smart_goal", "teaching_strategy", "parent_instructions", "behavior_goal",
                    "function_analysis"} -> EmptyStr
      [] OTHER -> EmptyArr

\* C4: when parsed is not an object (null, string, number, boolean), each
\* normalizer returns the canonical record whose summary is the fallback
\* note, whose suggestions hold exactly the one 'no valid AI output' message
\* and whose every other field is at its type default (review_after_days 14
\* and safety_flag false for the behavior plan).
C4_NonObjectFallback ==
    (pc = "idle" /\ NormalizerCalled /\ input.t \in {"null", "str", "num", "bool"}) =>
        /\ out # Throw
        /\ out.t = "obj"
        /\ KeysOf(out) = FieldsOfCalled
        /\ Get(out, "summary") = note
        /\ Get(out, "suggestions") = Arr(<<Str(NoValidAiOutput)>>)
        /\ \A i \in 1..Len(FieldsOfCalled) :
              FieldsOfCalled[i] \notin {"summary", "suggestions"} =>
                  Get(out, FieldsOfCalled[i]) = DefaultOf(FieldsOfCalled[i])

\* C4 witness: normalizeBehavior was applied to the number 5 with a non-empty
\* note and returned the note as the summary
C4_Witness ==
    /\ pc = "idle" /\ fn = "normalizeBehavior"
    /\ input = NumInt(5) /\ note = Str(<<"n", "o", "t", "e">>)
    /\ Get(out, "summary") = note

----------------------------------------------------------------------------
(* Claims: the analyze request *)

\* the upstream service answered 2xx and the handler has replied
UpstreamReplied == pc = "done" /\ calls = 1 /\ upstream # Undef /\ upstream.kind = "ok"

AnswerText == JsOr(upstream.content, EmptyStr)

\* neither the text as a whole nor its first-"{"-to-last-"}" span is JSON
ExtractionFails ==
    \/ ~Truthy(AnswerText)
    \/ JsonParse(AnswerText.v) = Throw /\ ParseBraceSpan(AnswerText.v) = Null

NormalizedInBody == Get(Get(response.body, "ai"), "normalized")

C6_AggregateConfidence ==
    (UpstreamReplied /\ response.status = 200) =>
        Get(Get(NormalizedInBody, "meta"), "confidence_overall") =
            IF Len(Confidences(Get(input, "suggestions"))) > 0
            THEN Mean(Confidences(Get(input, "suggestions")))
            ELSE IF Get(input, "confidence") # Undef THEN Get(input, "confidence")
            ELSE IF Get(input, "confidence_score") # Undef THEN Get(input, "confidence_score")
            ELSE Null

IsEntry(e) ==
    /\ e.t = "obj"
    /\ KeysOf(e) = <<"text", "rationale", "confidence">>
    /\ Get(e, "text").t = "str"
    /\ Get(e, "confidence").t \in {"num", "null"}

\* C7 (as claimed): in every successful response each element of
\* ai.normalized.suggestions and ai.normalized.customizations is an entry
\* {text, rationale, confidence}, and ai.suggestions and ai.customizations
\* are those entries' texts in order.  The code leaves the general plan's
\* suggestions plain strings outside mock mode.
C7_EntriesInResponse ==
    (pc = "done" /\ response.status = 200) =>
        \A k \in {"suggestions", "customizations"} :
            /\ Get(NormalizedInBody, k).t = "arr"
            /\ \A i \in 1..Len(Get(NormalizedInBody, k).v) : IsEntry(Get(NormalizedInBody, k).v[i])
            /\ Get(Get(response.body, "ai"), k) =
                   Arr([i \in 1..Len(Get(NormalizedInBody, k).v) |->
                           Get(Get(NormalizedInBody, k).v[i], "text")])

----------------------------------------------------------------------------
(* Claims: suggestion entries, the task back-fill, alias probing *)

FirstNonEmpty(values, otherwise) ==
    IF \E i \in 1..Len(values) : Truthy(values[i])
    THEN values[CHOOSE i \in 1..Len(values) :
                    Truthy(values[i]) /\ \A j \in 1..(i - 1) : ~Truthy(values[j])]
    ELSE otherwise

\* the entry C8 describes for one element of the input
EntryOfElement(item) ==
    IF item.t = "str"
    THEN Obj(<<M("text", item), M("rationale", EmptyStr), M("confidence", Null)>>)
    ELSE IF item.t = "obj"
    THEN Obj(<<M("text", FirstNonEmpty(<<Get(item, "text"), Get(item, "title"),
                                         Get(item, "label")>>, JsString(item))),
               M("rationale", FirstNonEmpty(<<Get(item, "rationale"), Get(item, "reason"),
                                              Get(item, "explanation")>>, EmptyStr)),
               M("confidence", IF Get(item, "confidence").t = "num"
                               THEN Get(item, "confidence") ELSE Null)>>)
    ELSE Obj(<<M("text", JsString(item)), M("rationale", EmptyStr), M("confidence", Null)>>)

\* C8 (as claimed): ensureSuggestionObjects maps every array to a sequence of
\* the same length whose entries are {text, rationale, confidence} built from
\* the elements as described, confidence a number or null, and never raises
\* for any element.  The code raises on [{"toString": 1}].
C8_EntriesForEveryArray ==
    (pc = "idle" /\ fn = "ensureSuggestionObjects" /\ input.t = "arr") =>
        /\ out # Throw
        /\ out.t = "arr"
        /\ Len(out.v) = Len(input.v)
        /\ \A i \in 1..Len(input.v) :
              /\ out.v[i] = EntryOfElement(input.v[i])
              /\ Get(out.v[i], "confidence").t \in {"num", "null"}

TaskKeys == <<"task_analysis_steps", "task_analysis", "steps", "tasks">>

\* C9 (as claimed): when the input object has no task steps under any task
\* key, normalizeAi returns as task_analysis_steps the first six
\* customizations when there are customizations, else the first six
\* suggestions.  The code returns all seven of seven customizations.
C9_BackfillCapped ==
    (/\ pc = "idle" /\ fn = "normalizeAi" /\ input.t = "obj" /\ out # Throw
     /\ \A i \in 1..Len(TaskKeys) : Get(input, TaskKeys[i]) = Undef) =>
        Get(out, "task_analysis_steps") =
            Arr(Take(IF Len(Get(out, "customizations").v) > 0
                     THEN Get(out, "customizations").v
                     ELSE Get(out, "suggestions").v, 6))

\* undefined, null, the empty string and the empty array
IsEmptyValue(x) == x \in {Undef, Null, EmptyStr, EmptyArr}

\* C10 (as claimed): a field is taken from the first key of its priority
\* list whose value is non-empty, an empty array at an earlier key never
\* shadowing a non-empty value at a later one.  The code returns no subgoals
\* for {"subgoals": [], "goals": ["s1", "s2"]}.
C10_FirstNonEmptyAlias ==
    (/\ pc = "idle" /\ fn = "normalizeAi" /\ input.t = "obj" /\ out # Throw
     /\ IsEmptyValue(Get(input, "subgoals"))
     /\ Get(input, "goals").t = "arr" /\ Get(input, "goals") # EmptyArr
     /\ IsStrSeq(Get(input, "goals"))) =>
        Get(out, "subgoals") = Get(input, "goals")

----------------------------------------------------------------------------
(* normalizeBehavior step by step: the canonical record as it is built *)

\* canonical after the direct assignments (lines 233-283), Throw when a
\* String of toArrayStrings raises
BehaviorExtracted(parsed) ==
    LET lists ==
            <<toArrayStrings(Probe(parsed, <<"antecedents", "antecedent", "preceding">>,
                                   Get(parsed, "before"))),
              toArrayStrings(Probe(parsed, <<"consequences", "consequence", "following">>,
                                   Get(parsed, "after"))),
              toArrayStrings(Probe(parsed, <<"antecedent_strategies", "antecedentStrategies",
                                             "prevention", "proactive">>, Get(parsed, "prep"))),
              toArrayStrings(Probe(parsed, <<"consequence_strategies", "consequenceStrategies",
                                             "response_strategies", "reactive">>,
                                   Get(parsed, "reinforcement"))),
              toArrayStrings(Probe(parsed, <<"suggestions", "recommendations">>,
                                   Get(parsed, "advice"))),
              toArrayStrings(Probe(parsed, <<"customizations", "tweaks">>,
                                   Get(parsed, "modifications")))>>
        dc == Get(parsed, "data_collection")
    IN IF \E i \in 1..6 : lists[i] = Throw THEN Throw
       ELSE
       Obj(<<M("behavior_goal", Probe(parsed, <<"behavior_goal", "smart_goal", "summary">>,
                                      EmptyStr)),
             M("summary", Probe(parsed, <<"summary", "behavior_goal", "smart_goal", "overview">>,
                                EmptyStr)),
             M("antecedents", lists[1]),
             M("consequences", lists[2]),
             M("function_analysis",
               Probe(parsed, <<"function_analysis", "behavior_function", "hypothesized_function",
                               "function">>, EmptyStr)),
             M("antecedent_strategies", lists[3]),
             M("replacement_behavior",
               Obj(<<M("skill", ReplacementBehavior(parsed)[1]),
                     M("modality", ReplacementBehavior(parsed)[2])>>)),
             M("consequence_strategies", lists[4]),
             M("data_collection",
               Obj(<<M("metric",
                       JsOr(JsOr(JsOr(JsAnd(dc, JsOr(Get(dc, "metric"), Get(dc, "measure"))),
                                      GetOpt(parsed, "measurement", "type")),
                                 Get(parsed, "metric")), EmptyStr)),
                     M("tool",
                       JsOr(JsOr(JsOr(JsAnd(dc, JsOr(Get(dc, "tool"), Get(dc, "instrument"))),
                                      GetOpt(parsed, "measurement", "sheet")),
                                 Get(parsed, "tool")), EmptyStr))>>)),
             M("review_after_days", ReviewAfterDays(parsed)),
             M("safety_flag", SafetyFlag(parsed)),
             M("suggestions", lists[5]),
             M("customizations", lists[6]),
             M("parent_instructions",
               Probe(parsed, <<"parent_instructions", "caregiver_instructions",
                               "home_instructions">>, EmptyStr)),
             M("meta",
               Obj(<<M("model_provided_confidence",
                       Probe(parsed, <<"confidence", "confidence_score">>, Null)),
                     M("notes", Probe(parsed, <<"_notes", "notes">>, EmptyStr))>>))>>)

\* allStrings: the sentences of every string of parsed
AllSentences(parsed) == Flatten(MapSeq(collectStrings(parsed), SentencesOf))

\* RecoverField without the test for an empty list: the candidates replace
\* what the direct extraction found
RecoverFieldOverwriting(canonical, field, parsed, keywords) ==
    IF Len(KeywordSentences(AllSentences(parsed), keywords)) > 0
    THEN With(canonical, field, StrArr(KeywordSentences(AllSentences(parsed), keywords)))
    ELSE canonical

\* if (!canonical[field].length) { cand = allStrings.filter(...); if
\* (cand.length) canonical[field] = cand }
RecoverField(canonical, field, parsed, keywords) ==
    IF Len(Get(canonical, field).v) = 0
       /\ Len(KeywordSentences(AllSentences(parsed), keywords)) > 0
    THEN With(canonical, field, StrArr(KeywordSentences(AllSentences(parsed), keywords)))
    ELSE canonical

\* the heuristic extraction of the antecedents alone
BehaviorRecoveredAntecedentsOnly(canonical, parsed) ==
    RecoverField(canonical, "antecedents", parsed, antecedentKeywords)

\* the heuristic extraction (lines 285-296)
BehaviorRecovered(canonical, parsed) ==
    RecoverField(RecoverField(canonical, "antecedents", parsed, antecedentKeywords),
                 "consequences", parsed, consequenceKeywords)

\* one strategy list taken from its source list when empty (lines 298-301)
FallBackField(canonical, field, source) ==
    With(canonical, field,
         StrArr(StrategyFallback(Texts(Get(canonical, field)), Texts(Get(canonical, source)))))

\* the strategy fall-backs (lines 297-306)
BehaviorStrategies(canonical) ==
    FallBackField(FallBackField(canonical, "antecedent_strategies", "suggestions"),
                  "consequence_strategies", "customizations")

\* consequences inferred from the summary (lines 308-313)
BehaviorInferred(canonical) ==
    IF /\ Len(Get(canonical, "consequences").v) = 0
       /\ Truthy(Get(canonical, "summary"))
       /\ Len(KeywordSentences(splitSentences(Get(canonical, "summary")),
                               consequenceKeywords)) > 0
    THEN With(canonical, "consequences",
              StrArr(KeywordSentences(splitSentences(Get(canonical, "summary")),
                                      consequenceKeywords)))
    ELSE canonical

ArrayFields ==
    <<"antecedents", "consequences", "antecedent_strategies", "consequence_strategies",
      "suggestions", "customizations">>

RECURSIVE UniqFields(_, _)
UniqFields(canonical, fields) ==
    IF Len(fields) = 0 THEN canonical
    ELSE UniqFields(With(canonical, Head(fields),
                         StrArr(uniq(Texts(Get(canonical, Head(fields)))))),
                    Tail(fields))

\* the final pass (lines 315-327)
BehaviorDeduped(canonical) == UniqFields(canonical, ArrayFields)

----------------------------------------------------------------------------
(* The values normalizeBehavior is taken through step by step *)

\* a sentence with a "precedes" keyword, one with a "follows" keyword, a text
\* of three sentences
BeforeText == <<"qaf", "ba", "lam", " ", "x">>
AfterText == <<"ba", "ayn", "dal", " ", "y">>
ThreeSentences == BeforeText \o <<".", " ">> \o AfterText \o <<"!", " ", "z">>

BehaviorValues ==
    { Str(BeforeText), Str(AfterText), Str(ThreeSentences), Str(<<"a">>), Str(<<" ">>),
      EmptyStr, EmptyArr, NumInt(5), List(MaxItems),
      Arr(<<Str(<<" ", "a", " ">>), Str(<<"a">>), EmptyStr, Str(<<"b">>)>>),
      Arr(<<Str(BeforeText), Str(BeforeText), Str(AfterText)>>),
      Obj(<<M("note", Str(ThreeSentences))>>) }

BehaviorKeys ==
    <<"antecedents", "before", "consequences", "antecedent_strategies", "summary",
      "suggestions", "customizations", "notes">>

BehaviorKeyPairs == {p \in (1..Len(BehaviorKeys)) \X (1..Len(BehaviorKeys)) : p[1] < p[2]}

\* objects of one or two members about the lists of the behavior plan
ListObjects ==
    {Obj(<<M(BehaviorKeys[i], v)>>) : i \in 1..Len(BehaviorKeys), v \in BehaviorValues}
    \cup {Obj(<<M(BehaviorKeys[p[1]], v), M(BehaviorKeys[p[2]], w)>>) :
            p \in BehaviorKeyPairs, v \in BehaviorValues, w \in BehaviorValues}

\* values of replacement_behavior: objects, strings with and without
\* separators, values that are neither
ReplacementValues ==
    { Undef, Null, NumInt(5), EmptyStr, Str(<<"a">>),
      Str(<<"a", " ", "|", " ", "b">>), Str(<<"a", "-", "b", ":", "c">>),
      Str(<<"|", " ", "a">>), Str(<<" ", "-", " ">>),
      Obj(<<>>), Obj(<<M("skill", Str(<<"s">>)), M("modality", Str(<<"m">>))>>),
      Obj(<<M("skill", EmptyStr), M("name", Str(<<"n">>)), M("medium", Str(<<"d">>))>>),
      Obj(<<M("label", Str(<<"l">>))>>), Arr(<<Str(<<"a">>)>>) }

ReplacementObjects ==
    { ObjectOf(<<M("replacement_behavior", rb), M("replacement", r),
                 M("replacement_skill", rs), M("replacement_modality", rm)>>) :
        rb \in ReplacementValues,
        r \in {Undef, Str(<<"r">>)},
        rs \in {Undef, Str(<<"k">>)},
        rm \in {Undef, Str(<<"v">>)} }

\* the three sources of safety_flag
SafetyObjects ==
    { ObjectOf(<<M("safety_flag", sf), M("meta", mt), M("severity", sv)>>) :
        sf \in {Undef, Bool(TRUE), Bool(FALSE), NumInt(0), Str(<<"yes">>), Null},
        mt \in {Undef, Null, Str(<<"m">>), Obj(<<>>), Obj(<<M("safety_flag", Bool(TRUE))>>),
                Obj(<<M("safety_flag", Bool(FALSE))>>)},
        sv \in {Undef, Str(SevereLiteral), Str(<<"mild">>), Bool(TRUE)} }

\* fully populated records, with and without a confidence and notes
FullRecords ==
    { ObjectOf(fp.v \o <<M("confidence", c), M("notes", n)>>) :
        fp \in {fakeParsed, fakeParsedBehavior},
        c \in {Undef, Num(4, 5)},
        n \in {Undef, Str(<<"n">>)} }

StepInputs == ListObjects \cup ReplacementObjects \cup SafetyObjects \cup FullRecords

InitSteps ==
    /\ input \in StepInputs
    /\ note = EmptyStr
    /\ fn = "none"
    /\ out = Undef
    /\ PostIdle

\* normalizeBehavior entered: the direct assignments
BehaviorExtract ==
    /\ pc = "idle" /\ fn = "none"
    /\ fn' = "normalizeBehavior"
    /\ out' = IF ~Truthy(input) \/ ~TypeofObject(input) THEN BehaviorFallback(note)
              ELSE BehaviorExtracted(input)
    /\ pc' = IF ~Truthy(input) \/ ~TypeofObject(input) \/ out' = Throw
             THEN "returned" ELSE "extracted"
    /\ UNCHANGED <<input, note, req, env, upstream, calls, response>>

BehaviorRecover ==
    /\ pc = "extracted"
    /\ out' = BehaviorRecovered(out, input)
    /\ pc' = "recovered"
    /\ UNCHANGED <<input, note, fn, req, env, upstream, calls, response>>

BehaviorFallBack ==
    /\ pc = "recovered"
    /\ out' = BehaviorStrategies(out)
    /\ pc' = "strategies"
    /\ UNCHANGED <<input, note, fn, req, env, upstream, calls, response>>

BehaviorInfer ==
    /\ pc = "strategies"
    /\ out' = BehaviorInferred(out)
    /\ pc' = "inferred"
    /\ UNCHANGED <<input, note, fn, req, env, upstream, calls, response>>

BehaviorDedup ==
    /\ pc = "inferred"
    /\ out' = BehaviorDeduped(out)
    /\ pc' = "returned"
    /\ UNCHANGED <<input, note, fn, req, env, upstream, calls, response>>

\* normalizeAi applied in one step
AiNormalize ==
    /\ pc = "idle" /\ fn = "none"
    /\ fn' = "normalizeAi"
    /\ out' = normalizeAi(input, note)
    /\ pc' = "returned"
    /\ UNCHANGED <<input, note, req, env, upstream, calls, response>>

\* the record returned is normalized once more by the same normalizer:
\* input becomes the first record, out the second
NormalizeAgain ==
    /\ pc = "returned" /\ out # Throw
    /\ input' = out
    /\ out' = IF fn = "normalizeAi" THEN normalizeAi(out, note) ELSE normalizeBehavior(out, note)
    /\ pc' = "again"
    /\ UNCHANGED <<note, fn, req, env, upstream, calls, response>>

NextSteps ==
    \/ BehaviorExtract
    \/ BehaviorRecover
    \/ BehaviorFallBack
    \/ BehaviorInfer
    \/ BehaviorDedup
    \/ AiNormalize
    \/ NormalizeAgain

SpecSteps == InitSteps /\ [][NextSteps]_vars

\* the steps together are normalizeBehavior
StepsAreNormalizeBehavior ==
    (pc = "returned" /\ fn = "normalizeBehavior") => out = normalizeBehavior(input, note)

----------------------------------------------------------------------------
(* Claims: the behavior plan's lists *)

\* the sentences, in traversal order, of all strings of the input that
\* contain a keyword
SentencesWith(keywords) ==
    SelectSeq(Flatten(MapSeq(collectStrings(input), SentencesOf)),
              LAMBDA s : \E i \in 1..Len(keywords) : Includes(ToLower(s), keywords[i]))

RecoveredAsClaimed(field, keywords) ==
    IF Get(out, field) = EmptyArr
    THEN Get(out', field) = StrArr(SentencesWith(keywords))
    ELSE Get(out', field) = Get(out, field)

FirstAt(list, s) == CHOOSE i \in 1..Len(list) : list[i].v = s /\ \A j \in 1..(i - 1) : list[j].v # s

\* after is before with blanks dropped, texts trimmed and every text kept at
\* its first occurrence only
DedupedAsClaimed(before, after) ==
    /\ \A i \in 1..Len(after) :
          /\ after[i].t = "str"
          /\ after[i].v # <<>>
          /\ Trim(after[i].v) = after[i].v
    /\ \A i, j \in 1..Len(after) : i # j => after[i] # after[j]
    /\ {after[i].v : i \in 1..Len(after)} = {Trim(before[i].v) : i \in 1..Len(before)} \ {<<>>}
    /\ \A i, j \in 1..Len(after) :
          i < j => FirstAt([k \in 1..Len(before) |-> Str(Trim(before[k].v))], after[i].v)
                     < FirstAt([k \in 1..Len(before) |-> Str(Trim(before[k].v))], after[j].v)

\* C12: the final pass of normalizeBehavior leaves in each of antecedents,
\* consequences, antecedent_strategies, consequence_strategies, suggestions
\* and customizations only trimmed, non-empty strings, no two of them equal,
\* in the order of their first occurrence in the list before the pass.
C12_DedupFirstOccurrence ==
    [][(pc = "inferred" /\ pc' = "returned") =>
           \A i \in 1..Len(ArrayFields) :
               DedupedAsClaimed(Get(out, ArrayFields[i]).v, Get(out', ArrayFields[i]).v)]_vars

\* C12 witness: the heuristic step listed one sentence twice and another one
\* after it, and the record returned holds each once, in that order
C12_Witness ==
    /\ pc = "returned" /\ fn = "normalizeBehavior"
    /\ Get(input, "notes") = Arr(<<Str(BeforeText), Str(BeforeText), Str(AfterText)>>)
    /\ Get(input, "summary") = Str(ThreeSentences)
    /\ Get(out, "consequences") = StrArr(<<AfterText>>)
    /\ Get(out, "antecedents") = StrArr(<<BeforeText>>)

\* C13: normalizeBehavior applied to a record normalizeBehavior returned for an
\* object returns the same antecedents, consequences, antecedent_strategies,
\* consequence_strategies, suggestions and customizations, element for
\* element, also where a list was empty after the first application.
C13_DedupLaw ==
    (pc = "again" /\ fn = "normalizeBehavior") =>
        /\ out # Throw
        /\ \A i \in 1..Len(ArrayFields) : Get(out, ArrayFields[i]) = Get(input, ArrayFields[i])

\* C13 witness: the first application recovered two consequences from a text,
\* left the antecedents it was given and returned no strategies; the second
\* application has run
C13_Witness ==
    /\ pc = "again" /\ fn = "normalizeBehavior"
    /\ Get(input, "antecedents") = StrArr(<< <<"a">>, <<"b">> >>)
    /\ Get(input, "consequences") = StrArr(<<AfterText>>)
    /\ Get(input, "antecedent_strategies") = EmptyArr
    /\ Get(out, "consequences") = StrArr(<<AfterText>>)

----------------------------------------------------------------------------
(* Claims: idempotence *)

\* a populated value of a canonical field: a non-empty string, a number, a
\* boolean, a non-empty list without duplicates, a record of non-empty strings
PopulatedValue(x) ==
    CASE x.t = "str" -> x.v # <<>>
      [] x.t \in {"num", "bool"} -> TRUE
      [] x.t = "arr" ->
            /\ x.v # <<>>
            /\ \A i, j \in 1..Len(x.v) : i # j => x.v[i] # x.v[j]
            /\ \A i \in 1..Len(x.v) :
                  \/ x.v[i].t = "str" /\ x.v[i].v # <<>>
                  \/ /\ x.v[i].t = "obj"
                     /\ \A k \in 1..Len(x.v[i].v) :
                           x.v[i].v[k].v.t = "str" /\ x.v[i].v[k].v.v # <<>>
      [] x.t = "obj" -> \A k \in 1..Len(x.v) : x.v[k].v.t = "str" /\ x.v[k].v.v # <<>>
      [] OTHER -> FALSE

\* an already-canonical record of the normalizer fn: the fields of the schema
\* in order, each populated, meta as a normalizer writes it
AlreadyCanonical(record) ==
    /\ record.t = "obj"
    /\ KeysOf(record) = (IF fn = "normalizeAi" THEN GeneralFields ELSE BehaviorFields)
    /\ \A i \in 1..Len(record.v) :
          IF record.v[i].k = <<"meta">>
          THEN /\ record.v[i].v.t = "obj"
               /\ KeysOf(record.v[i].v) = <<"model_provided_confidence", "notes">>
          ELSE PopulatedValue(record.v[i].v)

\* C14 (as claimed): a normalizer given an already-canonical record returns a
\* record equal to it in every field, meta included.  The code returns
\* meta.model_provided_confidence = null for a record whose meta holds 0.8.
C14_Idempotence ==
    (pc = "again" /\ AlreadyCanonical(input)) => out = input

\* the same without meta (not claimed; what the code does keep)
IdempotentButMeta ==
    (pc = "again" /\ AlreadyCanonical(input)) =>
        /\ out # Throw
        /\ \A i \in 1..Len(input.v) :
              input.v[i].k # <<"meta">> => Get(out, input.v[i].k[1]) = input.v[i].v

----------------------------------------------------------------------------
(* safeParseJSON applied to one value *)

\* what safeParseJSON is handed: the message contents, and values that are
\* no string
ParseInputs == Contents \cup {Null, NumInt(5), Bool(TRUE), Obj(<<>>), EmptyArr}

InitParse ==
    /\ input \in ParseInputs
    /\ note = EmptyStr
    /\ fn = "none"
    /\ out = Undef
    /\ PostIdle

CallSafeParseJSON ==
    /\ pc = "idle" /\ fn = "none"
    /\ fn' = "safeParseJSON"
    /\ out' = safeParseJSON(input)
    /\ UNCHANGED <<input, note, pc, req, env, upstream, calls, response>>

NextParse == CallSafeParseJSON

SpecParse == InitParse /\ [][NextParse]_vars

----------------------------------------------------------------------------
(* Claims: the JSON extractor *)

\* the text from its first "{" to its last "}", <<>> when there is no such span
WidestSpan(text) ==
    IF \E i, j \in 1..Len(text) : i < j /\ text[i] = "{" /\ text[j] = "}"
    THEN SubSeq(text,
                CHOOSE i \in 1..Len(text) :
                    text[i] = "{" /\ \A k \in 1..(i - 1) : text[k] # "{",
                CHOOSE j \in 1..Len(text) :
                    text[j] = "}" /\ \A k \in (j + 1)..Len(text) : text[k] # "}")
    ELSE <<>>

TwoObjectsText ==
    JsonText(Obj(<<M("summary", Str(<<"a">>))>>)) \o <<" ", "and", " ">> \o
    JsonText(Obj(<<M("summary", Str(<<"b">>))>>))

\* C15: safeParseJSON returns the value of a string that parses directly;
\* else the value of the span from the first "{" to the last "}" when that
\* span parses; else null, nothing further being tried, so two objects
\* separated by other text give null.  A value that is no string and the
\* empty string give null, and the function never raises.
C15_SafeParse ==
    (pc = "idle" /\ fn = "safeParseJSON") =>
        /\ out # Throw
        /\ out = IF input.t # "str" \/ input.v = <<>> THEN Null
                 ELSE IF JsonParse(input.v) # Throw THEN JsonParse(input.v)
                 ELSE IF WidestSpan(input.v) # <<>> /\ JsonParse(WidestSpan(input.v)) # Throw
                 THEN JsonParse(WidestSpan(input.v))
                 ELSE Null
        /\ \A v \in AnswerValues : input = Str(JsonText(v)) => out = v
        /\ input = Str(Prose \o JsonText(Obj(<<M("summary", Str(<<"o", "k">>))>>))
                       \o <<" ", "thanks">>)
              => out = Obj(<<M("summary", Str(<<"o", "k">>))>>)
        /\ input = Str(TwoObjectsText) => out = Null

\* C15 witness: the text holds two objects with prose between them, and null
\* was returned
C15_Witness ==
    /\ pc = "idle" /\ fn = "safeParseJSON"
    /\ input = Str(TwoObjectsText)
    /\ out = Null

----------------------------------------------------------------------------
(* Claims: scalar fields of the behavior plan *)

BehaviorReturned == pc = "returned" /\ fn = "normalizeBehavior" /\ out # Throw

\* the non-empty trimmed parts of a text split on "|", "-" and ":"
PartsOf(text) == SelectSeq(MapSeq(Split(text, {"|", "-", ":"}), Trim), NonEmpty)

SkillReturned == Get(Get(out, "replacement_behavior"), "skill")
ModalityReturned == Get(Get(out, "replacement_behavior"), "modality")

C17_SafetyFlagAnyOf ==
    BehaviorReturned =>
        Get(out, "safety_flag") =
            Bool(\/ Truthy(Get(input, "safety_flag"))
                 \/ Truthy(Get(Get(input, "meta"), "safety_flag"))
                 \/ Get(input, "severity") = Str(SevereLiteral))

\* C17 witness: safety_flag is false and meta.safety_flag is false in the
\* input, the severity is the "severe" literal, and the flag returned is true
C17_Witness ==
    /\ BehaviorReturned
    /\ Get(input, "safety_flag") = Bool(FALSE)
    /\ Get(input, "meta") = Obj(<<M("safety_flag", Bool(FALSE))>>)
    /\ Get(input, "severity") = Str(SevereLiteral)
    /\ Get(out, "safety_flag") = Bool(TRUE)

\* the number found first among the values, Undef when none is a number
FirstNumber(values) ==
    IF \E i \in 1..Len(values) : values[i].t = "num"
    THEN values[CHOOSE i \in 1..Len(values) :
                    values[i].t = "num" /\ \A j \in 1..(i - 1) : values[j].t # "num"]
    ELSE Undef

\* C18 (as claimed): review_after_days of the behavior record is the number
\* supplied at the first of review_after_days, meta.review_after_days and
\* review that holds one, and a number supplied, 0 included, is never replaced
\* by 14.  The code returns 14 for {"review_after_days": 0}.
C18_ReviewDaysKept ==
    (/\ pc = "idle" /\ fn = "normalizeBehavior" /\ input.t = "obj" /\ out # Throw
     /\ FirstNumber(<<Get(input, "review_after_days"),
                      Get(Get(input, "meta"), "review_after_days"),
                      Get(input, "review")>>) # Undef) =>
        Get(out, "review_after_days") =
            FirstNumber(<<Get(input, "review_after_days"),
                          Get(Get(input, "meta"), "review_after_days"),
                          Get(input, "review")>>)

IsBlank(text) == Trim(text) = <<>>

StringSequenceFields ==
    IF fn = "normalizeAi"
    THEN <<"task_analysis_steps", "subgoals", "execution_plan", "generalization_plan",
           "accommodations">>
    ELSE <<"antecedents", "consequences", "antecedent_strategies", "consequence_strategies">>

\* C19 (as claimed): no string-sequence field of a record returned by
\* normalizeAi or normalizeBehavior holds an empty or whitespace-only string,
\* whether the source was an array or a string, and a source that is neither
\* yields an empty sequence.  The code keeps the blanks of an array in
\* normalizeAi: {"task_analysis_steps": ["a", "", " "]}.
C19_BlanksDropped ==
    (pc = "idle" /\ NormalizerCalled /\ input.t = "obj" /\ out # Throw) =>
        /\ \A i \in 1..Len(StringSequenceFields) :
              /\ Get(out, StringSequenceFields[i]).t = "arr"
              /\ \A j \in 1..Len(Get(out, StringSequenceFields[i]).v) :
                    /\ Get(out, StringSequenceFields[i]).v[j].t = "str"
                    /\ ~IsBlank(Get(out, StringSequenceFields[i]).v[j].v)
        /\ (/\ fn = "normalizeAi" /\ KeysOf(input) = <<"subgoals">>
            /\ Get(input, "subgoals").t \in {"num", "bool", "obj", "null"}) =>
                Get(out, "subgoals") = EmptyArr

----------------------------------------------------------------------------
(* POST: several requests in flight, their steps interleaved *)

\* how many requests are in flight at once
MaxRequests == 2

Requests == 1..MaxRequests

\* the bodies and the answers of the requests in flight
ConcBodies ==
    { Obj(<<M("audioUrl", Str(<<"url">>))>>),
      Obj(<<M("textNote", Str(<<"n", "o", "t", "e">>))>>),
      Obj(<<M("textNote", Str(<<"n", "o", "t", "e">>)), M("planType", Str(<<"behavioral">>))>>),
      Obj(<<M("analysisType", Str(<<"general">>))>>) }

ConcAnswers ==
    { [kind |-> "error", content |-> Undef],
      [kind |-> "ok", content |-> Str(<<"sorry">>)],
      [kind |-> "ok", content |-> Str(JsonText(Obj(<<M("summary", Str(<<"o", "k">>))>>)))],
      [kind |-> "ok", content |-> Str(JsonText(Obj(<<M("suggestions", List(1))>>)))] }

\* a binding of the invocation r: every const and let of POST is declared
\* inside the function, one per call
LocalOfFirst(f, r) == f[1]
Local(f, r) == f[r]

\* an assignment to a binding of the invocation r
Bind(f, r, v) == [f EXCEPT ![r] = v]

InitConc ==
    /\ pc = [r \in Requests |-> "start"]
    /\ req \in [Requests -> ConcBodies]
    /\ env \in Envs
    /\ upstream = [r \in Requests |-> Undef]
    /\ calls = [r \in Requests |-> 0]
    /\ response = [r \in Requests |-> NoResponse]
    /\ input = [r \in Requests |-> Undef]
    /\ note = [r \in Requests |-> Undef]
    /\ fn = [r \in Requests |-> "none"]
    /\ out = [r \in Requests |-> Undef]

ConcReply(r, status, body) ==
    /\ response' = Bind(response, r, [status |-> status, body |-> body])
    /\ pc' = Bind(pc, r, "done")

ConcValidate(r) ==
    /\ pc[r] = "start"
    /\ IF FailsValidation(Local(req, r))
       THEN ConcReply(r, 400, ErrorBody("la-yujad-nass-aw-rabit-sawti"))
       ELSE IF QueryThrows(Local(req, r)) THEN ConcReply(r, 500, ErrorBody("err.message"))
       ELSE pc' = Bind(pc, r, "mock") /\ UNCHANGED response
    /\ UNCHANGED <<input, note, fn, out, req, env, upstream, calls>>

ConcMockRespond(r) ==
    /\ pc[r] = "mock" /\ env.mock
    /\ ConcReply(r, 200, MockBody(IsBehavior(Local(req, r)),
                                  UsedCurriculum(Local(req, r), env.curriculumMatches)))
    /\ UNCHANGED <<input, note, fn, out, req, env, upstream, calls>>

ConcMockOff(r) ==
    /\ pc[r] = "mock" /\ ~env.mock
    /\ pc' = Bind(pc, r, "key")
    /\ UNCHANGED <<input, note, fn, out, req, env, upstream, calls, response>>

ConcKeyMissing(r) ==
    /\ pc[r] = "key" /\ ~env.key
    /\ ConcReply(r, 500, ErrorBody("OpenAI api key not configured"))
    /\ UNCHANGED <<input, note, fn, out, req, env, upstream, calls>>

ConcCallUpstream(r) ==
    /\ pc[r] = "key" /\ env.key
    /\ calls' = Bind(calls, r, calls[r] + 1)
    /\ pc' = Bind(pc, r, "fetching")
    /\ UNCHANGED <<input, note, fn, out, req, env, upstream, response>>

ConcUpstreamAnswers(r) ==
    /\ pc[r] = "fetching"
    /\ \E a \in ConcAnswers : upstream' = Bind(upstream, r, a)
    /\ pc' = Bind(pc, r, "answered")
    /\ UNCHANGED <<input, note, fn, out, req, env, calls, response>>

ConcHandleAnswer(r) ==
    /\ pc[r] = "answered"
    /\ IF Local(upstream, r).kind = "error"
       THEN ConcReply(r, 500, ErrorBody("upstream error data")) /\ UNCHANGED input
       ELSE /\ input' = Bind(input, r, PostParse(JsOr(Local(upstream, r).content, EmptyStr)))
            /\ IF ~Truthy(input'[r])
               THEN ConcReply(r, 500,
                              InvalidJsonBody(JsOr(Local(upstream, r).content, EmptyStr),
                                              UsedCurriculum(Local(req, r),
                                                             env.curriculumMatches)))
               ELSE pc' = Bind(pc, r, "normalize") /\ UNCHANGED response
    /\ UNCHANGED <<note, fn, out, req, env, upstream, calls>>

ConcNormalize(r) ==
    /\ pc[r] = "normalize"
    /\ fn' = Bind(fn, r, IF IsBehavior(Local(req, r)) THEN "normalizeBehavior" ELSE "normalizeAi")
    /\ note' = Bind(note, r, IF IsBehavior(Local(req, r)) THEN BehaviorNote(Local(input, r))
                             ELSE GeneralNote(Local(input, r)))
    /\ out' = Bind(out, r, PostNormalize(Local(input, r), IsBehavior(Local(req, r))))
    /\ IF out'[r] = Throw THEN ConcReply(r, 500, ErrorBody("err.message"))
       ELSE pc' = Bind(pc, r, "respond") /\ UNCHANGED response
    /\ UNCHANGED <<input, req, env, upstream, calls>>

ConcRespond(r) ==
    /\ pc[r] = "respond"
    /\ ConcReply(r, 200, Envelope(Local(input, r), Local(out, r),
                                  EffectiveAnalysisType(Local(req, r)),
                                  UsedCurriculum(Local(req, r), env.curriculumMatches)))
    /\ UNCHANGED <<input, note, fn, out, req, env, upstream, calls>>

NextConc ==
    \/ \E r \in Requests : ConcValidate(r)
    \/ \E r \in Requests : ConcMockRespond(r)
    \/ \E r \in Requests : ConcMockOff(r)
    \/ \E r \in Requests : ConcKeyMissing(r)
    \/ \E r \in Requests : ConcCallUpstream(r)
    \/ \E r \in Requests : ConcUpstreamAnswers(r)
    \/ \E r \in Requests : ConcHandleAnswer(r)
    \/ \E r \in Requests : ConcNormalize(r)
    \/ \E r \in Requests : ConcRespond(r)

SpecConc == InitConc /\ [][NextConc]_vars

\* the response POST gives a request handled alone: the body, the environment
\* and, where the upstream is called, its answer
ResponseAlone(body, e, answer) ==
    LET usedCurriculum == UsedCurriculum(body, e.curriculumMatches)
        raw == JsOr(answer.content, EmptyStr)
        parsed == PostParse(raw)
        normalized == PostNormalize(parsed, IsBehavior(body))
    IN IF FailsValidation(body)
       THEN [status |-> 400, body |-> ErrorBody("la-yujad-nass-aw-rabit-sawti")]
       ELSE IF QueryThrows(body) THEN [status |-> 500, body |-> ErrorBody("err.message")]
       ELSE IF e.mock THEN [status |-> 200, body |-> MockBody(IsBehavior(body), usedCurriculum)]
       ELSE IF ~e.key
       THEN [status |-> 500, body |-> ErrorBody("OpenAI api key not configured")]
       ELSE IF answer.kind = "reject" THEN [status |-> 500, body |-> ErrorBody("err.message")]
       ELSE IF answer.kind = "error"
       THEN [status |-> 500, body |-> ErrorBody("upstream error data")]
       ELSE IF ~Truthy(parsed) THEN [status |-> 500, body |-> InvalidJsonBody(raw, usedCurriculum)]
       ELSE IF normalized = Throw THEN [status |-> 500, body |-> ErrorBody("err.message")]
       ELSE [status |-> 200,
             body |-> Envelope(parsed, normalized, EffectiveAnalysisType(body), usedCurriculum)]

\* the single-request handler answers what ResponseAlone says
AloneIsPost == pc = "done" => response = ResponseAlone(req, env, upstream)

----------------------------------------------------------------------------
(* Claims: requests in flight together *)

\* the bindings of the invocation r
Bindings(r) == <<input[r], note[r], fn[r], out[r], pc[r], req[r], upstream[r], calls[r],
                 response[r]>>

\* every finished request has the response it has when handled alone
AnsweredAsAlone ==
    \A r \in Requests :
        pc[r] = "done" => response[r] = ResponseAlone(req[r], env, upstream[r])

\* a step is the step of one request: the bindings of every other request and
\* the environment are the same after it
OneRequestSteps ==
    \E r \in Requests :
        /\ \A s \in Requests \ {r} : Bindings(s)' = Bindings(s)
        /\ env' = env

\* C20: with the steps of several requests interleaved in any order each
\* request gets the response it gets when it is handled alone, and a step of
\* one request changes nothing another request holds: there is no state the
\* requests share but the environment, which no step writes.
C20_RequestIndependence == []AnsweredAsAlone /\ [][OneRequestSteps]_vars

\* the second request has been answered 200 from its own upstream answer while
\* the first, called with another body, still holds an upstream error to handle
C20_Witness ==
    /\ pc[1] = "answered" /\ upstream[1].kind = "error"
    /\ pc[2] = "done" /\ response[2].status = 200 /\ calls[2] = 1
    /\ req[1] # req[2]

----------------------------------------------------------------------------
(* Claims: the strategy fall-back *)

\* the texts of s are the first n texts of source, all of them if there are fewer
FirstOf(s, source, n) ==
    /\ Len(s) = (IF Len(source) < n THEN Len(source) ELSE n)
    /\ \A i \in 1..Len(s) : s[i] = source[i]

FallenBackAsClaimed(field, source) ==
    IF Get(out, field) = EmptyArr
    THEN FirstOf(Get(out', field).v, Get(out, source).v, 6)
    ELSE Get(out', field) = Get(out, field)

\* the list of the returned record that the fall-back filled has at most six entries
FilledWithinSix(field) ==
    (/\ pc = "returned" /\ fn = "normalizeBehavior"
     /\ Truthy(input) /\ TypeofObject(input)
     /\ Get(BehaviorExtracted(input), field) = EmptyArr)
        => Len(Get(out, field).v) <= 6

----------------------------------------------------------------------------
(* Claims: the normalizer of a request *)

\* the plan-type selector of the request denotes a behavior plan
SelectsBehavior ==
    \/ Get(req, "planType") = Str(<<"behavioral">>)
    \/ Get(req, "analysisType") = Str(<<"behavior">>)

\* the request has been answered 200
Succeeded == pc = "done" /\ response.status = 200

\* the normalizer the handler called on the upstream answer is the one of the selector
SelectedRan ==
    (Succeeded /\ calls = 1) =>
        fn = (IF SelectsBehavior THEN "normalizeBehavior" ELSE "normalizeAi")

\* meta.analysisType of the response names the normalizer of the selector
NamedInMeta ==
    Succeeded =>
        Get(Get(response.body, "meta"), "analysisType") =
            (IF SelectsBehavior THEN Str(<<"behavior">>) ELSE Str(<<"general">>))

\* C22: the behavior normalizer runs exactly when planType is 'behavioral' or
\* analysisType is 'behavior', the general normalizer in every other case, a
\* missing or unrecognized selector included, and meta.analysisType of a
\* successful response names the normalizer that ran.
C22_NormalizerSelection == SelectedRan /\ NamedInMeta

----------------------------------------------------------------------------
(* Claims: the order of the steps of a request *)

Responded == response # NoResponse

\* at most one upstream call, and none before validation, the mock test and
\* the key test have let the request through
CalledInOrder ==
    /\ calls <= 1
    /\ calls = 1 => (~FailsValidation(req) /\ ~QueryThrows(req) /\ ~env.mock /\ env.key)

\* what the request gets without an upstream call: 400 when validation fails,
\* else 500 when the curriculum query raised, else 200 in mock mode, else 500
\* without a key
AnsweredEarly ==
    (pc = "done" /\ (FailsValidation(req) \/ QueryThrows(req) \/ env.mock \/ ~env.key)) =>
        /\ calls = 0
        /\ response.status = (IF FailsValidation(req) THEN 400
                              ELSE IF QueryThrows(req) THEN 500
                              ELSE IF env.mock THEN 200
                              ELSE 500)

\* a raise of the upstream call or of the normalizer is answered 500
RaiseAnswered ==
    (pc = "done" /\ calls = 1 /\ (upstream.kind = "reject" \/ out = Throw)) =>
        response.status = 500

\* C23: the upstream is called at most once, and only after the request
\* passed validation with mock mode off and a key configured; a request that
\* fails validation gets 400, a mock-mode request 200, a request without a
\* key 500, each without an upstream call; a raise in a step is answered 500;
\* and every request ends with one response, which is never changed.
C23_StepOrder ==
    /\ [](CalledInOrder /\ AnsweredEarly /\ RaiseAnswered /\ (Responded <=> pc = "done"))
    /\ [][Responded => response' = response]_vars
    /\ <>Responded

\* C23 witness: the request went through validation, the mock test and the
\* key test, the one upstream call raised, and the response is 500
C23_Witness ==
    /\ pc = "done" /\ calls = 1
    /\ upstream.kind = "reject"
    /\ response.status = 500

----------------------------------------------------------------------------
(* Claims: the second attempt at the consequences *)

\* normalizeBehavior of an object without the attempt on the summary
WithoutSummaryAttempt(parsed) ==
    BehaviorDeduped(BehaviorStrategies(BehaviorRecovered(BehaviorExtracted(parsed), parsed)))

\* C24: the attempt to take the consequences from the sentences of the
\* summary alone never changes the record: the step leaves it as it is, and
\* for every parsed object the record returned is the one the normalizer
\* returns without that attempt, the whole-tree pass having already listed
\* every "follows" sentence of the summary.
C24_SummaryAttemptRedundant ==
    /\ [][(pc = "strategies" /\ pc' = "inferred") => out' = out]_vars
    /\ []((/\ pc = "returned" /\ fn = "normalizeBehavior"
           /\ Truthy(input) /\ TypeofObject(input) /\ out # Throw)
             => out = WithoutSummaryAttempt(input))

\* C24 witness: the summary holds a "follows" sentence, no consequences were
\* given, the whole-tree pass has listed that sentence, and the attempt on
\* the summary has been passed
C24_Witness ==
    /\ pc = "inferred"
    /\ Get(input, "summary") = Str(ThreeSentences)
    /\ Get(input, "consequences") = Undef
    /\ Get(out, "consequences") = StrArr(<<AfterText>>)

====
